---- MODULE Spec2Model ----
(***************************************************************************)
(* Model of the interaction-network core of pypath:                        *)
(*   pypath/interaction.py  (class Interaction: evidence slots, merge,     *)
(*                           unset_direction, majority_dir/sign)           *)
(*   pypath/core/network.py (class Network: add_interaction, add_node,     *)
(*                           remove_node, remove_interaction,              *)
(*                           remove_zero_degree)                           *)
(* Two specifications share the module:                                    *)
(*   SpecIa  - one Interaction object driven through its own methods;      *)
(*   Spec    - one Network object driven through its public operations.    *)
(* pypath.evidence, pypath.entity and pypath.resource are imported by the  *)
(* two files but are not part of them; the few operations used from these  *)
(* modules are written from their documented behaviour.                    *)
(***************************************************************************)
EXTENDS Integers, FiniteSets, Sequences, TLC

VARIABLES
    ia,                     \* the Interaction object under test (SpecIa)
    res,                    \* outcome of the last call on `ia`
    nops,                   \* number of mutating calls made on `ia`
    interactions,           \* Network.interactions
    nodes,                  \* Network.nodes
    nodes_by_label,         \* Network.nodes_by_label
    interactions_by_nodes,  \* Network.interactions_by_nodes
    last,                   \* the last Network operation and its arguments
    nadd                    \* number of add_interaction calls made

iaVars == <<ia, res, nops>>
netVars == <<interactions, nodes, nodes_by_label, interactions_by_nodes,
             last, nadd>>
vars == <<ia, res, nops, interactions, nodes, nodes_by_label,
          interactions_by_nodes, last, nadd>>

(***************************************************************************)
(* Bounds                                                                  *)
(***************************************************************************)
\* references are the PubMed ids 1..MaxRef
MaxRef == 1
\* mutating calls made on the Interaction under test
MaxIaOps == 2
\* add_interaction calls made on the Network
MaxAdds == 2
\* find_paths is called with maxlen in 1..MaxLen
MaxLen == 3
\* an input file has at most MaxLines lines
MaxLines == 2

\* Python's None, for string valued fields
None == "None"

(***************************************************************************)
(* Entities (pypath.entity.Entity)                                         *)
(***************************************************************************)
Entity(identifier, taxon, label) ==
    [identifier |-> identifier, id_type |-> "uniprot",
     entity_type |-> "protein", taxon |-> taxon, label |-> label]

\* Python's None where an Entity is expected
NoneEntity ==
    [identifier |-> 0, id_type |-> None, entity_type |-> None,
     taxon |-> 0, label |-> None]

\* Two entities share the identifier 1 and differ in taxon; the entity
\* with identifier 2 has no label.
EntA == Entity(1, 9606, "L1")
EntA2 == Entity(1, 10090, "L1m")
EntB == Entity(2, 9606, None)
EntC == Entity(3, 9606, "L3")

Entities == {EntA, EntA2, EntB, EntC}

\* a complex of the other organism
EntCpx == [Entity(4, 10090, "L4") EXCEPT !.entity_type = "complex"]

\* Entity.key: the identifying fields
EntityKey(e) == <<e.identifier, e.id_type, e.entity_type, e.taxon>>

\* Entity.__eq__: equality on the key
EntityEq(e, f) == EntityKey(e) = EntityKey(f)

\* rank of the strings used in entity keys, in Python's string order
StrRank(s) ==
    CASE s = "complex" -> 1
      [] s = "lncrna" -> 2
      [] s = "protein" -> 3
      [] s = "uniprot" -> 4
      [] OTHER -> 0

\* Entity.__lt__: lexicographic order of the keys
EntityLess(e, f) ==
    \/ e.identifier < f.identifier
    \/ /\ e.identifier = f.identifier
       /\ \/ StrRank(e.id_type) < StrRank(f.id_type)
          \/ /\ e.id_type = f.id_type
             /\ \/ StrRank(e.entity_type) < StrRank(f.entity_type)
                \/ /\ e.entity_type = f.entity_type
                   /\ e.taxon < f.taxon

(***************************************************************************)
(* Resources and evidences (pypath.resource, pypath.evidence)              *)
(***************************************************************************)
NetworkResource(name, interaction_type, data_model, via) ==
    [name |-> name, interaction_type |-> interaction_type,
     data_model |-> data_model, via |-> via]

\* a primary resource and a secondary one that draws from it
ResP == NetworkResource("r1", "post_translational", "activity_flow", None)
ResS == NetworkResource("r2", "transcriptional", "activity_flow", "r1")

Resources == {ResP, ResS}

References == 1 .. MaxRef

\* the reference sets a single record carries: none or one PubMed id
RefSets == {{}} \cup {{r} : r \in References}

\* Evidences(): the empty container
EmptyEvidences == [r \in {} |-> {}]

\* an Evidences holding one Evidence
OneEvidence(resource, references) == [r \in {resource} |-> references]

\* Evidences.__iadd__: union, one Evidence per resource, references united
EvidencesAdd(evs, other) ==
    [r \in (DOMAIN evs) \cup (DOMAIN other) |->
        (IF r \in DOMAIN evs THEN evs[r] ELSE {})
            \cup (IF r \in DOMAIN other THEN other[r] ELSE {})]

\* Evidence.match: the filter tuple applied to one resource
ResourceMatch(r, resource, interaction_type, via) ==
    /\ resource = None \/ r.name = resource
    /\ interaction_type = None \/ r.interaction_type = interaction_type
    /\ CASE via = None -> TRUE
         [] via = "False" -> r.via = None
         [] via = "True" -> r.via # None
         [] OTHER -> r.via = via

\* Evidences.filter
EvidencesFilter(evs, resource, interaction_type, via) ==
    [r \in {x \in DOMAIN evs :
                ResourceMatch(x, resource, interaction_type, via)} |-> evs[r]]

\* Evidences.remove: drops the evidences the filter selects
EvidencesRemove(evs, resource, interaction_type, via) ==
    [r \in {x \in DOMAIN evs :
                ~ ResourceMatch(x, resource, interaction_type, via)} |-> evs[r]]

\* Evidences.count_resources
count_resources(evs, interaction_type, via) ==
    Cardinality(DOMAIN EvidencesFilter(evs, None, interaction_type, via))

\* Evidences.count_references
count_references(evs, interaction_type, via) ==
    LET f == EvidencesFilter(evs, None, interaction_type, via)
    IN  Cardinality(UNION {f[r] : r \in DOMAIN f})

\* Evidences.count_curation_effort: distinct (reference, resource) pairs
count_curation_effort(evs, interaction_type, via) ==
    LET f == EvidencesFilter(evs, None, interaction_type, via)
    IN  Cardinality({<<ref, r>> \in References \X (DOMAIN f) : ref \in f[r]})

(***************************************************************************)
(* Interaction (pypath/interaction.py)                                     *)
(***************************************************************************)
\* The direction keys.  self.a_b and self.b_a are tuples of entities, so
\* for a loop (a = b) they are the same dictionary key.
DirectedKeys(a, b) == IF a = b THEN {"a_b"} ELSE {"a_b", "b_a"}

\* the dictionary key a direction name stands for
Key(self, k) == IF k = "b_a" /\ self.a = self.b THEN "a_b" ELSE k

\* Interaction.__init__: endpoints sorted, all slots empty
Interaction(x, y) ==
    LET a == IF EntityLess(y, x) THEN y ELSE x
        b == IF EntityLess(y, x) THEN x ELSE y
    IN  [a |-> a, b |-> b,
         evidences |-> EmptyEvidences,
         direction |-> [k \in DirectedKeys(a, b) \cup {"undirected"} |->
                            EmptyEvidences],
         positive |-> [k \in DirectedKeys(a, b) |-> EmptyEvidences],
         negative |-> [k \in DirectedKeys(a, b) |-> EmptyEvidences]]

\* a `direction` argument: the string 'undirected' or a pair of entities
UndirectedArg == [src |-> NoneEntity, tgt |-> NoneEntity]
PairArg(src, tgt) == [src |-> src, tgt |-> tgt]

\* Interaction.id_to_entity
id_to_entity(self, identifier) ==
    IF EntityEq(self.a, identifier) THEN self.a
    ELSE IF EntityEq(self.b, identifier) THEN self.b
    ELSE NoneEntity

\* Interaction.direction_key: 'undirected', the matching key, or None
direction_key(self, direction) ==
    IF direction = UndirectedArg THEN "undirected"
    ELSE LET src == id_to_entity(self, direction.src)
             tgt == id_to_entity(self, direction.tgt)
         IN  IF src = self.a /\ tgt = self.b THEN "a_b"
             ELSE IF src = self.b /\ tgt = self.a THEN Key(self, "b_a")
             ELSE None

\* Interaction.add_evidence as a mutant would route it: the sign slots are
\* filled but the direction slot is not
add_evidence_sign_only(self, evidence, direction, effect) ==
    LET k == direction_key(self, direction)
    IN  IF k = None THEN self
        ELSE IF k = "undirected" \/ effect = 0
        THEN [self EXCEPT
                !.evidences = EvidencesAdd(@, evidence),
                !.direction[k] = EvidencesAdd(@, evidence)]
        ELSE IF effect = 1
        THEN [self EXCEPT
                !.evidences = EvidencesAdd(@, evidence),
                !.positive[k] = EvidencesAdd(@, evidence)]
        ELSE [self EXCEPT
                !.evidences = EvidencesAdd(@, evidence),
                !.negative[k] = EvidencesAdd(@, evidence)]

\* Interaction.add_evidence as a mutant without the direction check
add_evidence_unchecked(self, evidence, direction, effect) ==
    LET k == direction_key(self, direction)
        d == IF k = None THEN "a_b" ELSE k
    IN  IF d = "undirected"
        THEN [self EXCEPT
                !.evidences = EvidencesAdd(@, evidence),
                !.direction[d] = EvidencesAdd(@, evidence)]
        ELSE [self EXCEPT
                !.evidences = EvidencesAdd(@, evidence),
                !.direction[d] = EvidencesAdd(@, evidence),
                !.positive[d] =
                    IF effect = 1 THEN EvidencesAdd(@, evidence) ELSE @,
                !.negative[d] =
                    IF effect = -1 THEN EvidencesAdd(@, evidence) ELSE @]

\* Interaction.add_evidence
add_evidence(self, evidence, direction, effect) ==
    LET k == direction_key(self, direction)
    IN  IF k = None THEN self
        ELSE IF k = "undirected"
        THEN [self EXCEPT
                !.evidences = EvidencesAdd(@, evidence),
                !.direction[k] = EvidencesAdd(@, evidence)]
        ELSE [self EXCEPT
                !.evidences = EvidencesAdd(@, evidence),
                !.direction[k] = EvidencesAdd(@, evidence),
                !.positive[k] =
                    IF effect = 1 THEN EvidencesAdd(@, evidence) ELSE @,
                !.negative[k] =
                    IF effect = -1 THEN EvidencesAdd(@, evidence) ELSE @]

\* Interaction._key and Interaction.__eq__
InteractionKey(self) == <<EntityKey(self.a), EntityKey(self.b)>>
InteractionEq(self, other) == InteractionKey(self) = InteractionKey(other)

\* one slot dictionary merged key by key; `keys` are the keys visited
MergeSlots(one, other, keys) ==
    [k \in DOMAIN one |->
        IF k \in keys /\ k \in DOMAIN other
        THEN EvidencesAdd(one[k], other[k]) ELSE one[k]]

\* Interaction._merge_evidences: the loops run over the keys of `one`; a
\* key missing from `other` raises KeyError, and what was merged before
\* the error stays merged
MergeRaises(one, other) ==
    \/ ~ (DOMAIN one.positive \subseteq DOMAIN other.positive)
    \/ ~ (DOMAIN one.negative \subseteq DOMAIN other.negative)

\* Interaction._merge_evidences as a mutant that merges the sign slots
\* crosswise
_merge_evidences_crossed(one, other) ==
    [one EXCEPT
        !.evidences = EvidencesAdd(@, other.evidences),
        !.direction = MergeSlots(@, other.direction, DOMAIN @),
        !.positive = MergeSlots(@, other.negative, DOMAIN @),
        !.negative = MergeSlots(@, other.positive, DOMAIN @)]

_merge_evidences(one, other) ==
    [one EXCEPT
        !.evidences = EvidencesAdd(@, other.evidences),
        !.direction = MergeSlots(@, other.direction, DOMAIN @),
        !.positive = MergeSlots(@, other.positive, DOMAIN @),
        !.negative =
            IF DOMAIN one.positive \subseteq DOMAIN other.positive
            THEN MergeSlots(@, other.negative, DOMAIN @) ELSE @]

\* Interaction.__iadd__ as a mutant that merges whatever the endpoints are
iadd_unchecked(self, other) == _merge_evidences(self, other)

\* Interaction.__iadd__
__iadd__(self, other) ==
    IF ~ InteractionEq(self, other) THEN self
    ELSE _merge_evidences(self, other)

\* Interaction._check_nodes_key
_check_nodes_key(self, n) ==
    \/ EntityEq(n[1], self.a) /\ EntityEq(n[2], self.b)
    \/ EntityEq(n[1], self.b) /\ EntityEq(n[2], self.a)

\* Interaction.merge
merge(self, other) ==
    IF ~ _check_nodes_key(self, <<other.a, other.b>>) THEN self
    ELSE [self EXCEPT
            !.evidences = EvidencesAdd(@, other.evidences),
            !.direction = MergeSlots(@, other.direction,
                              DirectedKeys(self.a, self.b) \cup {"undirected"}),
            !.positive = MergeSlots(@, other.positive,
                              DirectedKeys(self.a, self.b)),
            !.negative = MergeSlots(@, other.negative,
                              DirectedKeys(self.a, self.b))]

\* one step of the loop of unset_direction over one slot dictionary: with
\* a resource the matching evidences are removed from slot[k] (KeyError if
\* the dictionary has no key k), without one slot[k] is replaced by an
\* empty Evidences (which creates the key if it is missing)
UnsetRaises(slot, k, resource) == resource # None /\ k \notin DOMAIN slot

UnsetSlot(slot, k, resource, interaction_type, via) ==
    IF resource # None
    THEN IF k \in DOMAIN slot
         THEN [slot EXCEPT
                 ![k] = EvidencesRemove(@, resource, interaction_type, via)]
         ELSE slot
    ELSE [x \in (DOMAIN slot) \cup {k} |->
            IF x = k THEN EmptyEvidences ELSE slot[x]]

\* Interaction._effect_synonyms
_effect_synonyms(effect) ==
    IF effect \in {"positive", "stimulation", "stimulatory"} THEN "positive"
    ELSE IF effect \in {"negative", "inhibition", "inhibitory"} THEN "negative"
    ELSE None

\* Interaction.unset_direction: does the call end in a KeyError
unset_direction_raises(self, direction, only_sign, resource) ==
    LET k == direction_key(self, direction)
    IN  /\ k # None
        /\ IF only_sign # None
           THEN IF _effect_synonyms(only_sign) = "positive"
                THEN UnsetRaises(self.positive, k, resource)
                ELSE UnsetRaises(self.negative, k, resource)
           ELSE \/ UnsetRaises(self.positive, k, resource)
                \/ UnsetRaises(self.negative, k, resource)

\* Interaction.unset_direction as a mutant that clears the direction slot
\* and leaves the sign slots alone
unset_direction_keeps_signs(self, direction, only_sign, resource, interaction_type, via) ==
    LET k == direction_key(self, direction)
    IN  IF k = None \/ only_sign # None THEN self
        ELSE [self EXCEPT
                !.direction =
                    UnsetSlot(@, k, resource, interaction_type, via)]

\* Interaction.unset_direction: the object after the call (after the
\* KeyError, if it raises: the slots visited before it are already changed)
unset_direction(self, direction, only_sign, resource, interaction_type, via) ==
    LET k == direction_key(self, direction)
    IN  IF k = None THEN self
        ELSE IF only_sign # None
        THEN IF _effect_synonyms(only_sign) = "positive"
             THEN [self EXCEPT
                     !.positive =
                         UnsetSlot(@, k, resource, interaction_type, via)]
             ELSE [self EXCEPT
                     !.negative =
                         UnsetSlot(@, k, resource, interaction_type, via)]
        ELSE [self EXCEPT
                !.direction = UnsetSlot(@, k, resource, interaction_type, via),
                !.positive = UnsetSlot(@, k, resource, interaction_type, via),
                !.negative =
                    IF UnsetRaises(self.positive, k, resource) THEN @
                    ELSE UnsetSlot(@, k, resource, interaction_type, via)]

\* Interaction.unset_sign
unset_sign(self, direction, sign, resource, interaction_type, via) ==
    unset_direction(self, direction, sign, resource, interaction_type, via)

\* the counting method majority_dir and majority_sign select
CountBy(evs, interaction_type, only_primary, by_references, by_reference_resource_pairs) ==
    LET via == IF only_primary THEN "False" ELSE None
    IN  IF by_references THEN count_references(evs, interaction_type, via)
        ELSE IF by_reference_resource_pairs
        THEN count_curation_effort(evs, interaction_type, via)
        ELSE count_resources(evs, interaction_type, via)

\* Interaction.majority_dir as a mutant that breaks ties towards (b,a)
majority_dir_no_tie(self, only_interaction_type, only_primary, by_references, by_reference_resource_pairs) ==
    LET a_b == self.direction["a_b"]
        b_a == self.direction[Key(self, "b_a")]
        n_a_b == CountBy(a_b, only_interaction_type, only_primary,
                         by_references, by_reference_resource_pairs)
        n_b_a == CountBy(b_a, only_interaction_type, only_primary,
                         by_references, by_reference_resource_pairs)
    IN  IF DOMAIN a_b = {} /\ DOMAIN b_a = {} THEN "undirected"
        ELSE IF n_a_b = 0 /\ n_b_a = 0 THEN "undirected"
        ELSE IF n_a_b > n_b_a THEN "a_b"
        ELSE Key(self, "b_a")

\* Interaction.majority_dir: 'undirected', None (a tie), a_b or b_a
majority_dir(self, only_interaction_type, only_primary, by_references, by_reference_resource_pairs) ==
    LET a_b == self.direction["a_b"]
        b_a == self.direction[Key(self, "b_a")]
        n_a_b == CountBy(a_b, only_interaction_type, only_primary,
                         by_references, by_reference_resource_pairs)
        n_b_a == CountBy(b_a, only_interaction_type, only_primary,
                         by_references, by_reference_resource_pairs)
    IN  IF DOMAIN a_b = {} /\ DOMAIN b_a = {} THEN "undirected"
        ELSE IF n_a_b = 0 /\ n_b_a = 0 THEN "undirected"
        ELSE IF n_a_b = n_b_a THEN None
        ELSE IF n_a_b > n_b_a THEN "a_b"
        ELSE Key(self, "b_a")

\* Interaction.majority_sign as a mutant with strict majorities
majority_sign_strict(self, only_interaction_type, only_primary, by_references, by_reference_resource_pairs) ==
    [_dir \in DirectedKeys(self.a, self.b) |->
        LET n_pos == CountBy(self.positive[_dir], only_interaction_type,
                             only_primary, by_references,
                             by_reference_resource_pairs)
            n_neg == CountBy(self.negative[_dir], only_interaction_type,
                             only_primary, by_references,
                             by_reference_resource_pairs)
        IN  <<n_pos > n_neg, n_neg > n_pos>>]

\* Interaction.majority_sign: for each directed key the pair
\* [0 < n_pos >= n_neg, 0 < n_neg >= n_pos]
majority_sign(self, only_interaction_type, only_primary, by_references, by_reference_resource_pairs) ==
    [_dir \in DirectedKeys(self.a, self.b) |->
        LET n_pos == CountBy(self.positive[_dir], only_interaction_type,
                             only_primary, by_references,
                             by_reference_resource_pairs)
            n_neg == CountBy(self.negative[_dir], only_interaction_type,
                             only_primary, by_references,
                             by_reference_resource_pairs)
        IN  <<0 < n_pos /\ n_pos >= n_neg, 0 < n_neg /\ n_neg >= n_pos>>]

\* the pair of entities a direction key stands for (self.a_b, self.b_a)
KeyPair(self, k) ==
    IF k = "a_b" THEN <<self.a, self.b>> ELSE <<self.b, self.a>>

\* the rows consensus appends for one direction: majority_sign gives a
\* list for every direction, never None, so the branch that would append
\* a 'directed', 'unknown' row is not taken
ConsensusRows(self, d, _effect) ==
    (IF _effect[d][1]
     THEN <<<<KeyPair(self, d)[1], KeyPair(self, d)[2], "directed", "positive">>>>
     ELSE <<>>)
    \o
    (IF _effect[d][2]
     THEN <<<<KeyPair(self, d)[1], KeyPair(self, d)[2], "directed", "negative">>>>
     ELSE <<>>)

\* Interaction.consensus: the list of [source, target, directed, sign]
consensus(self, only_interaction_type, only_primary, by_references, by_reference_resource_pairs) ==
    LET _dir == majority_dir(self, only_interaction_type, only_primary,
                             by_references, by_reference_resource_pairs)
        _effect == majority_sign(self, only_interaction_type, only_primary,
                                 by_references, by_reference_resource_pairs)
    IN  IF _dir = "undirected"
        THEN <<<<self.a, self.b, "undirected", "unknown">>>>
        ELSE IF _dir = None
        THEN ConsensusRows(self, "a_b", _effect)
                \o ConsensusRows(self, Key(self, "b_a"), _effect)
        ELSE ConsensusRows(self, _dir, _effect)

\* sum(...) over Evidences objects: Evidences.__add__ unites them
EvidencesSum(evss) ==
    [r \in UNION {DOMAIN e : e \in evss} |->
        UNION {e[r] : e \in {x \in evss : r \in DOMAIN x}}]

\* Interaction.which_directions without resources and effect: the directed
\* keys that hold evidence
which_dirs(self) ==
    {d \in (DOMAIN self.direction) \ {"undirected"} :
        DOMAIN self.direction[d] # {}}

\* Interaction.get_evidences raises when direction is True and no
\* direction holds evidence: sum() of nothing is the integer 0, which has
\* no filter method
get_evidences_raises(self, direction, effect) ==
    /\ effect \notin {"True", "positive", "negative"}
    /\ direction = "True"
    /\ which_dirs(self) = {}

\* Interaction.get_evidences, called without resources, data_model,
\* interaction_type, via and references; the branch of effect 'negative'
\* reads self.positive, as the branch of 'positive' does
get_evidences(self, direction, effect) ==
    LET evidences ==
            IF effect = "True"
            THEN EvidencesSum({self.positive[k] : k \in DOMAIN self.positive}
                    \cup {self.negative[k] : k \in DOMAIN self.negative})
            ELSE IF effect = "positive"
            THEN IF direction \in DOMAIN self.positive
                 THEN self.positive[direction]
                 ELSE EvidencesSum({self.positive[k] : k \in DOMAIN self.positive})
            ELSE IF effect = "negative"
            THEN IF direction \in DOMAIN self.positive
                 THEN self.positive[direction]
                 ELSE EvidencesSum({self.positive[k] : k \in DOMAIN self.positive})
            ELSE IF direction = "True"
            THEN EvidencesSum({self.direction[d] : d \in which_dirs(self)})
            ELSE IF direction \in DOMAIN self.direction
            THEN self.direction[direction]
            ELSE self.evidences
    IN  EvidencesFilter(evidences, None, None, None)

(***************************************************************************)
(* Edge records (Network._add_update_edge)                                 *)
(***************************************************************************)
\* the fields of an edge record that decide the evidence routing
Edge(id_a, id_b, evidences, is_directed, positive, negative) ==
    [id_a |-> id_a, id_b |-> id_b, evidences |-> evidences,
     is_directed |-> is_directed, positive |-> positive,
     negative |-> negative]

\* Network._add_update_edge, up to the call of add_interaction: the
\* Interaction built from one edge record
EdgeInteraction(edge) ==
    LET i0 == Interaction(edge.id_a, edge.id_b)
        i1 == IF edge.is_directed
              THEN add_evidence(i0, edge.evidences,
                                PairArg(edge.id_a, edge.id_b), 0)
              ELSE add_evidence(i0, edge.evidences, UndirectedArg, 0)
        i2 == IF edge.positive
              THEN add_evidence(i1, edge.evidences,
                                PairArg(edge.id_a, edge.id_b), 1)
              ELSE i1
    IN  IF edge.negative
        THEN add_evidence(i2, edge.evidences,
                          PairArg(edge.id_a, edge.id_b), -1)
        ELSE i2

(***************************************************************************)
(* Interaction: the directedness queries (pypath/interaction.py)           *)
(***************************************************************************)
\* Interaction.is_directed: any(self.direction.values()), the value under
\* 'undirected' included; an Evidences is true when it is not empty
is_directed(self) ==
    \E k \in DOMAIN self.direction : DOMAIN self.direction[k] # {}

\* Interaction.is_mutual, without resources
is_mutual(self) ==
    /\ DOMAIN self.direction["a_b"] # {}
    /\ DOMAIN self.direction[Key(self, "b_a")] # {}

(***************************************************************************)
(* Network (pypath/core/network.py)                                        *)
(***************************************************************************)
\* dictionary helpers: d[k] = v, d.pop(k, None)
Put(d, k, v) == [x \in (DOMAIN d) \cup {k} |-> IF x = k THEN v ELSE d[x]]
Pop(d, k) == [x \in (DOMAIN d) \ {k} |-> d[x]]

\* the four maps of a Network as one value
Network(ias, ns, labels, by_nodes) ==
    [interactions |-> ias, nodes |-> ns, nodes_by_label |-> labels,
     interactions_by_nodes |-> by_nodes]

\* Network.reset
EmptyNetwork ==
    Network([k \in {} |-> {}], [k \in {} |-> {}], [k \in {} |-> {}],
            [k \in {} |-> {}])

\* identifiers are strings in the program; the key under which add_node
\* files an entity in nodes_by_label: entity.label or entity.identifier
LabelKey(entity) ==
    IF entity.label # None THEN entity.label ELSE ToString(entity.identifier)

\* Network.add_node (attrs are not modelled; Entity.__iadd__ merges the
\* attributes into the stored entity and leaves its key alone)
add_node(self, entity, add) ==
    IF entity.identifier \in DOMAIN self.nodes THEN self
    ELSE IF add
    THEN [self EXCEPT
            !.nodes = Put(@, entity.identifier, entity),
            !.nodes_by_label = Put(@, LabelKey(entity), entity)]
    ELSE self

\* Interaction.get_interaction_types: the interaction types of the
\* resources of the evidences
get_interaction_types(ia_) ==
    {r.interaction_type : r \in DOMAIN ia_.evidences}

\* Interaction.unset_interaction_type, for a set of types: the evidences
\* of these interaction types are dropped from every slot
DropTypes(evs, itypes) ==
    [r \in {x \in DOMAIN evs : x.interaction_type \notin itypes} |-> evs[r]]

\* Interaction.unset_interaction_type as a mutant that removes nothing
unset_interaction_types_kept(ia_, itypes) == ia_

\* Interaction.unset_interaction_type for each type of a set
unset_interaction_types(ia_, itypes) ==
    [ia_ EXCEPT
        !.evidences = DropTypes(@, itypes),
        !.direction = [k \in DOMAIN @ |-> DropTypes(@[k], itypes)],
        !.positive = [k \in DOMAIN @ |-> DropTypes(@[k], itypes)],
        !.negative = [k \in DOMAIN @ |-> DropTypes(@[k], itypes)]]

\* interactions_by_nodes is a defaultdict(set): reading a missing key
\* creates it with an empty set
ByNodes(self, entity) ==
    IF entity \in DOMAIN self.interactions_by_nodes
    THEN self.interactions_by_nodes[entity] ELSE {}

\* Network.add_interaction as a mutant that indexes the key only under
\* the first endpoint
add_interaction_half_indexed(self, interaction, only_directions) ==
    LET key == <<interaction.a, interaction.b>>
        n0 == [self EXCEPT !.interactions = Put(@, key, interaction)]
        n1 == add_node(n0, interaction.a, TRUE)
        n2 == add_node(n1, interaction.b, TRUE)
    IN  IF key \in DOMAIN self.interactions \/ only_directions THEN self
        ELSE [n2 EXCEPT !.interactions_by_nodes =
                Put(@, interaction.a, ByNodes(n2, interaction.a) \cup {key})]

\* Network.add_interaction (called with a dictionary of attrs, as
\* _add_update_edge does)
add_interaction(self, interaction, only_directions) ==
    LET key == <<interaction.a, interaction.b>>
        present == key \in DOMAIN self.interactions
        common == IF present
                  THEN get_interaction_types(self.interactions[key])
                           \cap get_interaction_types(interaction)
                  ELSE {}
        incoming == IF only_directions
                    THEN unset_interaction_types(interaction,
                             get_interaction_types(interaction) \ common)
                    ELSE interaction
        n0 == IF present
              THEN [self EXCEPT !.interactions[key] = __iadd__(@, incoming)]
              ELSE [self EXCEPT !.interactions = Put(@, key, interaction)]
        n1 == add_node(n0, interaction.a, ~ only_directions)
        n2 == add_node(n1, interaction.b, ~ only_directions)
        n3 == [n2 EXCEPT !.interactions_by_nodes =
                Put(@, interaction.a, ByNodes(n2, interaction.a) \cup {key})]
    IN  IF ~ present /\ only_directions THEN self
        ELSE IF present /\ only_directions /\ common = {} THEN self
        ELSE [n3 EXCEPT !.interactions_by_nodes =
                Put(@, interaction.b, ByNodes(n3, interaction.b) \cup {key})]

\* the set.copy() remove_node iterates over, as a sequence (the order of
\* iteration does not change the outcome)
RECURSIVE SetToSeq(_)
SetToSeq(S) ==
    IF S = {} THEN <<>>
    ELSE LET x == CHOOSE y \in S : TRUE IN <<x>> \o SetToSeq(S \ {x})

RECURSIVE remove_node(_, _)
RECURSIVE remove_interaction(_, _, _)
RECURSIVE RemoveKeys(_, _)

\* the loop of remove_node: remove_interaction(*i_key) for each key
RemoveKeys(self, keys) ==
    IF keys = <<>> THEN self
    ELSE RemoveKeys(remove_interaction(self, Head(keys)[1], Head(keys)[2]),
                    Tail(keys))

\* Network.remove_node, called with an Entity object
remove_node(self, entity) ==
    LET n0 == [self EXCEPT
                !.nodes = Pop(@, entity.identifier),
                !.nodes_by_label =
                    IF entity.label # None THEN Pop(@, entity.label) ELSE @]
    IN  IF entity \in DOMAIN n0.interactions_by_nodes
        THEN LET n1 == RemoveKeys(n0,
                           SetToSeq(n0.interactions_by_nodes[entity]))
             IN  [n1 EXCEPT !.interactions_by_nodes = Pop(@, entity)]
        ELSE n0

\* Network.remove_interaction as a mutant that forgets the index of the
\* second endpoint
remove_interaction_half(self, entity_a, entity_b) ==
    LET key_ab == <<entity_a, entity_b>>
        key_ba == <<entity_b, entity_a>>
        keys == {key_ab, key_ba}
        n0 == [self EXCEPT !.interactions = Pop(Pop(@, key_ab), key_ba)]
        n1 == [n0 EXCEPT !.interactions_by_nodes =
                Put(@, entity_a, ByNodes(n0, entity_a) \ keys)]
    IN  IF n1.interactions_by_nodes[entity_a] = {}
        THEN remove_node(n1, entity_a)
        ELSE n1

\* Network.remove_interaction, called with Entity objects
remove_interaction(self, entity_a, entity_b) ==
    LET key_ab == <<entity_a, entity_b>>
        key_ba == <<entity_b, entity_a>>
        keys == {key_ab, key_ba}
        n0 == [self EXCEPT !.interactions = Pop(Pop(@, key_ab), key_ba)]
        n1 == [n0 EXCEPT !.interactions_by_nodes =
                Put(@, entity_a, ByNodes(n0, entity_a) \ keys)]
        n2 == [n1 EXCEPT !.interactions_by_nodes =
                Put(@, entity_b, ByNodes(n1, entity_b) \ keys)]
        n3 == IF /\ entity_a \in DOMAIN n2.interactions_by_nodes
                 /\ n2.interactions_by_nodes[entity_a] = {}
              THEN remove_node(n2, entity_a)
              ELSE n2
    IN  IF /\ entity_b \in DOMAIN n3.interactions_by_nodes
           /\ n3.interactions_by_nodes[entity_b] = {}
        THEN remove_node(n3, entity_b)
        ELSE n3

RECURSIVE RemoveNodes(_, _)
\* the loop `for node in to_remove: self.remove_node(node)`
RemoveNodes(self, to_remove) ==
    IF to_remove = <<>> THEN self
    ELSE RemoveNodes(remove_node(self, Head(to_remove)), Tail(to_remove))

\* Network.remove_zero_degree
remove_zero_degree(self) ==
    LET to_remove == {node \in DOMAIN self.interactions_by_nodes :
                          self.interactions_by_nodes[node] = {}}
    IN  RemoveNodes(self, SetToSeq(to_remove))

\* Network.vcount, Network.ecount
vcount(self) == Cardinality(DOMAIN self.nodes)
ecount(self) == Cardinality(DOMAIN self.interactions)

(***************************************************************************)
(* Network: remove_node and remove_interaction, statement by statement     *)
(***************************************************************************)
\* the frame of a call of remove_node: the entity, the copy of its
\* adjacency set the loop runs over, and the position in the method
RemoveNodeFrame(entity) ==
    [fn |-> "remove_node", a |-> entity, b |-> NoneEntity, keys |-> <<>>,
     pc |-> "start"]

\* the frame of a call of remove_interaction
RemoveInteractionFrame(entity_a, entity_b) ==
    [fn |-> "remove_interaction", a |-> entity_a, b |-> entity_b,
     keys |-> <<>>, pc |-> "start"]

\* the network and the call stack after a statement
Running(net, stack) == [net |-> net, stack |-> stack]

\* the stack without its top frame, and with another frame in its place
Return(stack) == SubSeq(stack, 1, Len(stack) - 1)
Goto(stack, frame) == Append(Return(stack), frame)

\* Network.remove_node as a mutant whose loop runs over the adjacency set
\* without consuming it
remove_node_step_rescan(self, stack) ==
    LET f == stack[Len(stack)]
    IN  IF f.pc = "start"
        THEN LET n0 == [self EXCEPT
                        !.nodes = Pop(@, f.a.identifier),
                        !.nodes_by_label =
                            IF f.a.label # None THEN Pop(@, f.a.label) ELSE @]
             IN  IF f.a \in DOMAIN n0.interactions_by_nodes
                 THEN Running(n0, Goto(stack,
                        [f EXCEPT !.pc = "loop",
                            !.keys = SetToSeq(n0.interactions_by_nodes[f.a])]))
                 ELSE Running(n0, Return(stack))
        ELSE IF f.keys = <<>>
        THEN Running([self EXCEPT !.interactions_by_nodes = Pop(@, f.a)],
                     Return(stack))
        ELSE Running(self,
                     Append(stack,
                            RemoveInteractionFrame(Head(f.keys)[1],
                                                   Head(f.keys)[2])))

\* one statement of Network.remove_node: the pops, then the loop
\* `for i_key in self.interactions_by_nodes[entity].copy()`, then the pop
\* of the adjacency set
remove_node_step(self, stack) ==
    LET f == stack[Len(stack)]
    IN  IF f.pc = "start"
        THEN LET n0 == [self EXCEPT
                        !.nodes = Pop(@, f.a.identifier),
                        !.nodes_by_label =
                            IF f.a.label # None THEN Pop(@, f.a.label) ELSE @]
             IN  IF f.a \in DOMAIN n0.interactions_by_nodes
                 THEN Running(n0, Goto(stack,
                        [f EXCEPT !.pc = "loop",
                            !.keys = SetToSeq(n0.interactions_by_nodes[f.a])]))
                 ELSE Running(n0, Return(stack))
        ELSE IF f.keys = <<>>
        THEN Running([self EXCEPT !.interactions_by_nodes = Pop(@, f.a)],
                     Return(stack))
        ELSE Running(self,
                     Append(Goto(stack, [f EXCEPT !.keys = Tail(@)]),
                            RemoveInteractionFrame(Head(f.keys)[1],
                                                   Head(f.keys)[2])))

\* one statement of Network.remove_interaction: the pops and the two set
\* differences, the test and call for entity_a, the same for entity_b
remove_interaction_step(self, stack) ==
    LET f == stack[Len(stack)]
        key_ab == <<f.a, f.b>>
        key_ba == <<f.b, f.a>>
        keys == {key_ab, key_ba}
    IN  IF f.pc = "start"
        THEN LET n0 == [self EXCEPT
                            !.interactions = Pop(Pop(@, key_ab), key_ba)]
                 n1 == [n0 EXCEPT !.interactions_by_nodes =
                            Put(@, f.a, ByNodes(n0, f.a) \ keys)]
                 n2 == [n1 EXCEPT !.interactions_by_nodes =
                            Put(@, f.b, ByNodes(n1, f.b) \ keys)]
             IN  Running(n2, Goto(stack, [f EXCEPT !.pc = "check_a"]))
        ELSE IF f.pc = "check_a"
        THEN IF /\ f.a \in DOMAIN self.interactions_by_nodes
                /\ self.interactions_by_nodes[f.a] = {}
             THEN Running(self,
                          Append(Goto(stack, [f EXCEPT !.pc = "check_b"]),
                                 RemoveNodeFrame(f.a)))
             ELSE Running(self, Goto(stack, [f EXCEPT !.pc = "check_b"]))
        ELSE IF f.pc = "check_b"
        THEN IF /\ f.b \in DOMAIN self.interactions_by_nodes
                /\ self.interactions_by_nodes[f.b] = {}
             THEN Running(self,
                          Append(Goto(stack, [f EXCEPT !.pc = "return"]),
                                 RemoveNodeFrame(f.b)))
             ELSE Running(self, Return(stack))
        ELSE Running(self, Return(stack))

(***************************************************************************)
(* Network: removal of high-throughput and undirected interactions         *)
(***************************************************************************)
\* Evidences.get_references: the references of all the evidences
EvidencesReferences(evs) == UNION {evs[r] : r \in DOMAIN evs}

\* Interaction.get_references, without arguments: the references of
\* get_evidences()
get_references(self) == EvidencesReferences(get_evidences(self, None, None))

\* Network.numof_interactions_per_reference, for one reference
numof_interactions_per_reference(self, ref) ==
    Cardinality({key \in DOMAIN self.interactions :
                    ref \in get_references(self.interactions[key])})

\* the references remove_htp takes for high-throughput
htp_refs(self, threshold) ==
    {ref \in UNION {get_references(self.interactions[key]) :
                        key \in DOMAIN self.interactions} :
        numof_interactions_per_reference(self, ref) > threshold}

\* Network.remove_htp as a mutant that spares only interactions without a
\* high-throughput reference
remove_htp_any(self, threshold, keep_directed) ==
    LET to_remove ==
            {key \in DOMAIN self.interactions :
                /\ get_references(self.interactions[key])
                        \cap htp_refs(self, threshold) # {}
                /\ \/ ~ keep_directed
                   \/ ~ is_directed(self.interactions[key])}
    IN  RemoveKeys(self, SetToSeq(to_remove))

\* Network.remove_htp
remove_htp(self, threshold, keep_directed) ==
    LET to_remove ==
            {key \in DOMAIN self.interactions :
                /\ get_references(self.interactions[key])
                        \ htp_refs(self, threshold) = {}
                /\ \/ ~ keep_directed
                   \/ ~ is_directed(self.interactions[key])}
    IN  RemoveKeys(self, SetToSeq(to_remove))

\* the interactions the loop of remove_undirected calls remove_interaction
\* for: those with is_directed() true and, when min_refs is given, fewer
\* references than min_refs (min_refs = 0 stands for None as well)
undirected_to_remove(self, min_refs) ==
    {key \in DOMAIN self.interactions :
        /\ is_directed(self.interactions[key])
        /\ \/ min_refs = 0
           \/ Cardinality(get_references(self.interactions[key])) < min_refs}

(***************************************************************************)
(* Network: path search                                                    *)
(***************************************************************************)
\* Interaction.get_degrees(mode = 'IN'): the endpoints a direction with
\* evidence points to
get_degrees_in(self) == {KeyPair(self, d)[2] : d \in which_dirs(self)}

\* Interaction.is_loop
is_loop(self) == self.a = self.b

\* Network.partners(entity, mode = 'OUT') without filters: the mode is
\* swapped to 'IN' and the endpoints with an incoming direction are
\* collected over the interactions of the entity
partners(self, entity) ==
    IF entity \in DOMAIN self.interactions_by_nodes
    THEN UNION {
            {partner \in get_degrees_in(self.interactions[key]) :
                partner # entity \/ is_loop(self.interactions[key])} :
            key \in self.interactions_by_nodes[entity]}
    ELSE {}

\* the nodes of a path
Nodes(path) == {path[i] : i \in DOMAIN path}

RECURSIVE find_all_paths_aux(_, _, _, _, _, _, _)

\* find_all_paths_aux as a mutant that never excludes the nodes of the
\* path from the next steps
find_all_paths_aux_revisit(self, start, end, path0, loops, minlen, maxlen) ==
    LET path == Append(path0, start)
    IN  IF /\ Len(path) >= minlen + 1
           /\ \/ start = end
              \/ end = NoneEntity /\ ~ loops /\ Len(path) = maxlen + 1
              \/ loops /\ path[1] = path[Len(path)]
        THEN {path}
        ELSE IF Len(path) <= maxlen
        THEN UNION {find_all_paths_aux(self, node, end, path, loops,
                                       minlen, maxlen) :
                        node \in partners(self, start)}
        ELSE {}

\* find_all_paths_aux of Network.find_paths: the paths that extend
\* path0 + [start]
find_all_paths_aux(self, start, end, path0, loops, minlen, maxlen) ==
    LET path == Append(path0, start)
        next_steps == IF loops THEN partners(self, start)
                      ELSE partners(self, start) \ Nodes(path)
    IN  IF /\ Len(path) >= minlen + 1
           /\ \/ start = end
              \/ end = NoneEntity /\ ~ loops /\ Len(path) = maxlen + 1
              \/ loops /\ path[1] = path[Len(path)]
        THEN {path}
        ELSE IF Len(path) <= maxlen
        THEN UNION {find_all_paths_aux(self, node, end, path, loops,
                                       minlen, maxlen) :
                        node \in next_steps}
        ELSE {}

\* Network.find_paths as a mutant that takes minlen as given
find_paths_minlen_unclamped(self, start, end, loops, maxlen, minlen) ==
    find_all_paths_aux(self, start, end, <<>>, loops, minlen, maxlen)

\* Network.find_paths with one start node, one end node or None, mode
\* 'OUT' and no filters; the list of paths as a set
find_paths(self, start, end, loops, maxlen, minlen) ==
    find_all_paths_aux(self, start, end, <<>>, loops,
                       IF minlen < 1 THEN 1 ELSE minlen, maxlen)

(***************************************************************************)
(* Network: loading resources (pypath/core/network.py)                     *)
(***************************************************************************)
\* the values the `resources` argument of Network.load is made of: an
\* input schema (NetworkInput or NetworkResource), a string, a list, a
\* dict (its values, in insertion order), or anything else
Schema(resource) == [kind |-> "resource", name |-> resource.name, items |-> <<>>]
StrArg(name) == [kind |-> "str", name |-> name, items |-> <<>>]
ListArg(items) == [kind |-> "list", name |-> "", items |-> items]
DictArg(values) == [kind |-> "dict", name |-> "", items |-> values]
NoneArg == [kind |-> "other", name |-> None, items |-> <<>>]

\* isinstance(resources, (list, dict, tuple, set))
IsCollection(resources) == resources.kind \in {"list", "dict"}

\* pypath.resources.network: the collections that can be named by a string
network_resources == [pathway |-> DictArg(<<Schema(ResP), Schema(ResS)>>)]

\* the schema a name stands for
ResourceByName(name) == CHOOSE r \in Resources : r.name = name

\* Network._read_resource: the edge records in edge_list_mapped once the
\* data of the resource has been read and mapped
edge_list_mapped(resource) ==
    IF resource = ResP
    THEN <<Edge(EntA, EntB, OneEvidence(ResP, {1}), TRUE, TRUE, FALSE)>>
    ELSE <<Edge(EntB, EntC, OneEvidence(ResS, {1}), FALSE, FALSE, FALSE),
           Edge(EntB, EntA2, OneEvidence(ResS, {1}), FALSE, FALSE, FALSE)>>

\* Network._add_update_edge
_add_update_edge(self, edge, only_directions) ==
    add_interaction(self, EdgeInteraction(edge), only_directions)

RECURSIVE _add_edge_list(_, _, _)
\* Network._add_edge_list: `for e in edge_list: self._add_update_edge(e)`
_add_edge_list(self, edge_list, only_directions) ==
    IF edge_list = <<>> THEN self
    ELSE _add_edge_list(
            _add_update_edge(self, Head(edge_list), only_directions),
            Tail(edge_list), only_directions)

\* Network.ncbi_tax_id as set by Network.__init__
ncbi_tax_id == 9606

\* Network.organisms_check; `organisms` is the empty set for None, and
\* `unlisted` are the entities reflists.check does not find in the
\* reference list of their organism
organisms_check_with(self, organisms, remove_mismatches, remove_nonspecific, unlisted) ==
    LET orgs == IF organisms = {} THEN {ncbi_tax_id} ELSE organisms
        to_remove ==
            {self.nodes[k] : k \in {i \in DOMAIN self.nodes :
                \/ self.nodes[i].taxon \notin orgs
                \/ /\ remove_mismatches
                   /\ self.nodes[i].entity_type \notin {"complex", "lncrna"}
                   /\ self.nodes[i] \in unlisted
                \/ /\ remove_nonspecific
                   /\ self.nodes[i].taxon = 0}}
    IN  RemoveNodes(self, SetToSeq(to_remove))

\* Network.organisms_check with its default arguments; every identifier is
\* taken to be in the reference list of its organism
organisms_check(self) == organisms_check_with(self, {}, TRUE, FALSE, {})

\* Network.load_resource
load_resource(self, resource, only_directions) ==
    remove_zero_degree(
        organisms_check(
            _add_edge_list(self, edge_list_mapped(resource),
                           only_directions)))

\* the network and the names load_resource has been called with, in order
Loading(net, calls) == [net |-> net, calls |-> calls]

RECURSIVE load(_, _, _, _)
RECURSIVE LoadEach(_, _, _, _)
\* the loop `for resource in resources` of Network.load
LoadEach(st, resources, exclude, only_directions) ==
    IF resources = <<>> THEN st
    ELSE LET resource == Head(resources)
             st1 ==
                IF /\ resource.kind = "str"
                   /\ resource.name \in DOMAIN network_resources
                THEN load(st, network_resources[resource.name], {},
                          only_directions)
                ELSE IF IsCollection(resource)
                THEN load(st, resource, {}, only_directions)
                ELSE IF /\ resource.kind = "resource"
                        /\ resource.name \notin exclude
                THEN Loading(load_resource(st.net,
                                           ResourceByName(resource.name),
                                           only_directions),
                             Append(st.calls, resource.name))
                ELSE st
         IN  LoadEach(st1, Tail(resources), exclude, only_directions)

\* Network.load without a pickle file: the recursive calls are made with
\* `kwargs`, which holds reread, redownload, keep_raw, top_call and
\* only_directions, so `exclude` takes its default in them
load(st, resources, exclude, only_directions) ==
    LoadEach(st,
             IF IsCollection(resources) THEN resources.items
             ELSE <<resources>>,
             exclude, only_directions)

(***************************************************************************)
(* Network: reading a resource (pypath/core/network.py)                    *)
(***************************************************************************)
\* a line of the input: the two raw identifiers, the content of the
\* direction column and of the sign column, and the PubMed ids that
\* dataio.only_pmids leaves of the reference column; `empty` marks a line
\* with len(line) <= 1
Line(id_a, id_b, dir, sign, refs) ==
    [id_a |-> id_a, id_b |-> id_b, dir |-> dir, sign |-> sign, refs |-> refs,
     empty |-> FALSE]
EmptyLine ==
    [id_a |-> "", id_b |-> "", dir |-> "", sign |-> "", refs |-> {},
     empty |-> TRUE]
HeaderLine == Line("source", "target", "direction", "effect", {})

\* NetworkInput: `is_directed` is False, True or a column definition,
\* `sign` is False or a column definition; the resource is named by the
\* schema and the organism is the integer 9606
NetworkInput(header, is_directed_, sign, must_have_refs) ==
    [header |-> header, is_directed |-> is_directed_, sign |-> sign,
     must_have_references |-> must_have_refs]

\* the words of the direction column and of the sign column
dir_val == {"directed"}
sign_pos == {"+"}
sign_neg == {"-"}

\* Network._process_direction
_process_direction(line, dir_col, values) ==
    IF dir_col = None THEN FALSE
    ELSE IF dir_col = "dir" THEN line.dir \in values
    ELSE line.sign \in values

\* Network._process_sign: <<positive, negative>>
_process_sign(sign_data) == <<sign_data \in sign_pos, sign_data \in sign_neg>>

\* the edge record _read_resource builds from a line
RawEdge(id_a, id_b, evidences, is_directed_, positive, negative) ==
    [id_a |-> id_a, id_b |-> id_b, taxon_a |-> ncbi_tax_id,
     taxon_b |-> ncbi_tax_id, evidences |-> evidences,
     is_directed |-> is_directed_, positive |-> positive,
     negative |-> negative, default_name_a |-> 0, default_name_b |-> 0]

\* the reading of a resource so far: the edge list and the counter of the
\* lines dropped for lack of references
Reading(edge_list, ref_filtered) ==
    [edge_list |-> edge_list, ref_filtered |-> ref_filtered]

\* settings.get('keep_noref') or networkinput.must_have_references
must_have_references(networkinput, keep_noref) ==
    keep_noref \/ networkinput.must_have_references

\* the body of the loop `for lnum, line in enumerate(infile)` of
\* Network._read_resource, for the line at index lnum
ReadLine(st, networkinput, keep_noref, lnum, line) ==
    LET is_directed_ == networkinput.is_directed
        sign == networkinput.sign
        dir_col == IF is_directed_ = "column" THEN "dir"
                   ELSE IF sign = "column" THEN "sign" ELSE None
        values == IF is_directed_ = "column" THEN dir_val
                  ELSE sign_pos \cup sign_neg
        this_edge_dir ==
            IF is_directed_ = "True" THEN TRUE
            ELSE _process_direction(line, dir_col, values)
        signs == IF sign = "column" THEN _process_sign(line.sign)
                 ELSE <<FALSE, FALSE>>
    IN  IF line.empty \/ (lnum = 1 /\ networkinput.header) THEN st
        ELSE IF line.refs = {}
                /\ must_have_references(networkinput, keep_noref)
        THEN Reading(st.edge_list, st.ref_filtered + 1)
        ELSE Reading(
                Append(st.edge_list,
                       RawEdge(line.id_a, line.id_b,
                               OneEvidence(ResP, line.refs), this_edge_dir,
                               signs[1], signs[2])),
                st.ref_filtered)

RECURSIVE ReadLines(_, _, _, _, _)
ReadLines(st, networkinput, keep_noref, infile, lnum) ==
    IF lnum >= Len(infile) THEN st
    ELSE ReadLines(ReadLine(st, networkinput, keep_noref, lnum,
                            infile[lnum + 1]),
                   networkinput, keep_noref, infile, lnum + 1)

\* mapping.map_name: the identifiers a raw name translates to; the name of
\* a complex gives its members, an unknown name gives nothing
map_name(name) ==
    CASE name = "P1" -> {1}
      [] name = "P3" -> {3}
      [] name = "CPX1" -> {1, 2}
      [] OTHER -> {}

\* Network._map_edge as a mutant that pairs the two identifier sets
\* element by element
_map_edge_paired(edge) ==
    LET default_id_a == SetToSeq(map_name(edge.id_a))
        default_id_b == SetToSeq(map_name(edge.id_b))
        n == IF Len(default_id_a) < Len(default_id_b)
             THEN Len(default_id_a) ELSE Len(default_id_b)
    IN  [i \in 1 .. n |->
            [edge EXCEPT !.default_name_a = default_id_a[i],
                         !.default_name_b = default_id_b[i]]]

\* Network._map_edge: one copy of the edge for each element of
\* itertools.product(default_id_a, default_id_b)
_map_edge(edge) ==
    LET default_id_a == SetToSeq(map_name(edge.id_a))
        default_id_b == SetToSeq(map_name(edge.id_b))
        n == Len(default_id_b)
    IN  [i \in 1 .. Len(default_id_a) * n |->
            [edge EXCEPT
                !.default_name_a = default_id_a[((i - 1) \div n) + 1],
                !.default_name_b = default_id_b[((i - 1) % n) + 1]]]

RECURSIVE _map_list(_)
\* Network._map_list
_map_list(lst) ==
    IF lst = <<>> THEN <<>>
    ELSE _map_edge(Head(lst)) \o _map_list(Tail(lst))

\* Network._read_resource, from the lines of the input to edge_list_mapped
_read_resource(networkinput, keep_noref, infile) ==
    LET st == ReadLines(Reading(<<>>, 0), networkinput, keep_noref, infile, 0)
    IN  [edge_list |-> st.edge_list,
         edge_list_mapped |-> _map_list(st.edge_list),
         ref_filtered |-> st.ref_filtered]

\* Entity(identifier, taxon) as _add_update_edge builds it
EntityOf(identifier, taxon) ==
    CHOOSE e \in Entities : e.identifier = identifier /\ e.taxon = taxon

\* the fields of a mapped edge record that _add_update_edge reads
MappedEdge(edge) ==
    Edge(EntityOf(edge.default_name_a, edge.taxon_a),
         EntityOf(edge.default_name_b, edge.taxon_b),
         edge.evidences, edge.is_directed, edge.positive, edge.negative)

(***************************************************************************)
(* SpecIa: one Interaction object and the calls made on it                 *)
(***************************************************************************)
\* the parameters of majority_dir / majority_sign
QueryParams ==
    [only_interaction_type : {None, "post_translational"},
     only_primary : BOOLEAN,
     by_references : BOOLEAN,
     by_reference_resource_pairs : BOOLEAN]

NoParams ==
    [only_interaction_type |-> None, only_primary |-> FALSE,
     by_references |-> FALSE, by_reference_resource_pairs |-> TRUE]

\* the outcome of a call: the method, whether it raised, whether its
\* argument did not match the endpoints, and what a query returned
Outcome(op, raised, mismatch, value, signs, q) ==
    [op |-> op, raised |-> raised, mismatch |-> mismatch, value |-> value,
     signs |-> signs, q |-> q, rows |-> <<>>, evs |-> EmptyEvidences]

Mutated(op, raised, mismatch) ==
    Outcome(op, raised, mismatch, None, <<>>, NoParams)

\* the endpoints of the Interaction under test
IaA == EntA
IaB == EntB

\* the evidences one call carries: the primary resource with or without a
\* reference, the secondary resource with one
InputEvidences ==
    {OneEvidence(ResP, refs) : refs \in RefSets}
        \cup {OneEvidence(ResS, {r}) : r \in References}

\* the evidences of the interactions merged into the one under test
OtherEvidences == {OneEvidence(ResS, {r}) : r \in References}

\* the direction arguments: 'undirected', the two orders of the endpoints,
\* and a pair that is not the endpoints (same identifier, other taxon)
DirectionArgs ==
    {UndirectedArg, PairArg(IaA, IaB), PairArg(IaB, IaA), PairArg(EntA2, IaB)}

DirectionMismatch(d) ==
    d \notin {UndirectedArg, PairArg(IaA, IaB), PairArg(IaB, IaA)}

\* the interactions merged into the one under test: each is built from one
\* edge record, over the same endpoints (in either order) or over others
OtherPairs == {<<IaA, IaB>>, <<IaB, IaA>>, <<EntA2, IaB>>}

Others ==
    {EdgeInteraction(Edge(p[1], p[2], ev, d, pos, neg)) :
        p \in OtherPairs, ev \in OtherEvidences,
        d \in BOOLEAN, pos \in BOOLEAN, neg \in BOOLEAN}

EndpointMismatch(other) == <<other.a, other.b>> # <<IaA, IaB>>

\* Updates are not made once queries have begun: a behaviour builds the
\* Interaction and ends with one query.
QueryOps ==
    {"majority_dir", "majority_sign", "consensus", "get_evidences",
     "is_directed", "is_mutual"}
Building == res.op \notin QueryOps

IaAddEvidence(ev, d, effect) ==
    /\ Building
    /\ nops < MaxIaOps
    /\ ia' = add_evidence(ia, ev, d, effect)
    /\ res' = Mutated("add_evidence", FALSE, DirectionMismatch(d))
    /\ nops' = nops + 1
    /\ UNCHANGED netVars

IaIadd(other) ==
    /\ Building
    /\ nops < MaxIaOps
    /\ ia' = __iadd__(ia, other)
    /\ res' = Mutated("__iadd__",
                      InteractionEq(ia, other) /\ MergeRaises(ia, other),
                      EndpointMismatch(other))
    /\ nops' = nops + 1
    /\ UNCHANGED netVars

IaMerge(other) ==
    /\ Building
    /\ nops < MaxIaOps
    /\ ia' = merge(ia, other)
    /\ res' = Mutated("merge", FALSE, EndpointMismatch(other))
    /\ nops' = nops + 1
    /\ UNCHANGED netVars

\* unset_direction(direction, resource = ...): only_sign, interaction_type
\* and via keep their defaults (False, None, False)
IaUnsetDirection(d, resource) ==
    /\ Building
    /\ nops < MaxIaOps
    /\ ia' = unset_direction(ia, d, None, resource, None, "False")
    /\ res' = Mutated("unset_direction",
                      unset_direction_raises(ia, d, None, resource),
                      DirectionMismatch(d))
    /\ nops' = nops + 1
    /\ UNCHANGED netVars

IaUnsetSign(d, sign, resource) ==
    /\ Building
    /\ nops < MaxIaOps
    /\ ia' = unset_sign(ia, d, sign, resource, None, "False")
    /\ res' = Mutated("unset_sign",
                      unset_direction_raises(ia, d, sign, resource),
                      DirectionMismatch(d))
    /\ nops' = nops + 1
    /\ UNCHANGED netVars

IaMajorityDir(q) ==
    /\ Building
    /\ res' = Outcome("majority_dir", FALSE, FALSE,
                      majority_dir(ia, q.only_interaction_type,
                                   q.only_primary, q.by_references,
                                   q.by_reference_resource_pairs),
                      <<>>, q)
    /\ UNCHANGED <<ia, nops>>
    /\ UNCHANGED netVars

IaMajoritySign(q) ==
    /\ Building
    /\ res' = Outcome("majority_sign", FALSE, FALSE, None,
                      majority_sign(ia, q.only_interaction_type,
                                    q.only_primary, q.by_references,
                                    q.by_reference_resource_pairs),
                      q)
    /\ UNCHANGED <<ia, nops>>
    /\ UNCHANGED netVars

\* Interaction.consensus; the outcome holds the direction and the signs
\* it was computed from, and the rows returned
IaConsensus(q) ==
    /\ Building
    /\ res' = [Outcome("consensus", FALSE, FALSE,
                       majority_dir(ia, q.only_interaction_type,
                                    q.only_primary, q.by_references,
                                    q.by_reference_resource_pairs),
                       majority_sign(ia, q.only_interaction_type,
                                     q.only_primary, q.by_references,
                                     q.by_reference_resource_pairs),
                       q)
               EXCEPT !.rows = consensus(ia, q.only_interaction_type,
                                         q.only_primary, q.by_references,
                                         q.by_reference_resource_pairs)]
    /\ UNCHANGED <<ia, nops>>
    /\ UNCHANGED netVars

\* Interaction.get_evidences; q holds the direction and effect arguments
IaGetEvidences(direction, effect) ==
    /\ Building
    /\ LET q == [direction |-> direction, effect |-> effect]
       IN  IF get_evidences_raises(ia, direction, effect)
           THEN res' = Outcome("get_evidences", TRUE, FALSE, None, <<>>, q)
           ELSE res' = [Outcome("get_evidences", FALSE, FALSE, None, <<>>, q)
                            EXCEPT !.evs = get_evidences(ia, direction, effect)]
    /\ UNCHANGED <<ia, nops>>
    /\ UNCHANGED netVars

\* a Python bool as the value of an outcome
Bool(b) == IF b THEN "True" ELSE "False"

IaIsDirected ==
    /\ Building
    /\ res' = Outcome("is_directed", FALSE, FALSE, Bool(is_directed(ia)),
                      <<>>, NoParams)
    /\ UNCHANGED <<ia, nops>>
    /\ UNCHANGED netVars

IaIsMutual ==
    /\ Building
    /\ res' = Outcome("is_mutual", FALSE, FALSE, Bool(is_mutual(ia)),
                      <<>>, NoParams)
    /\ UNCHANGED <<ia, nops>>
    /\ UNCHANGED netVars

\* the empty Network (Network.reset)
\* the last call made on the Network: its name and arguments, whether the
\* pair was new to the network when it was added (fresh), and whether the
\* call repeats (add_interaction) or undoes (remove_interaction) the call
\* before it
Last(op, edge, a, b, only_directions, fresh, repeat) ==
    [op |-> op, edge |-> edge, a |-> a, b |-> b,
     only_directions |-> only_directions, fresh |-> fresh, repeat |-> repeat,
     raised |-> FALSE, threshold |-> 0, keep_directed |-> FALSE,
     min_refs |-> 0, loops |-> FALSE, minlen |-> 0, maxlen |-> 0,
     paths |-> {}, resources |-> NoneArg, exclude |-> {}, calls |-> <<>>,
     networkinput |-> NetworkInput(FALSE, "False", None, FALSE),
     keep_noref |-> FALSE, infile |-> <<>>, edge_list |-> <<>>,
     edge_list_mapped |-> <<>>, ref_filtered |-> 0, built |-> <<>>,
     organisms |-> {}, unlisted |-> {}, saved |-> FALSE,
     pickle |-> [interactions |-> <<>>, nodes |-> <<>>,
                 nodes_by_label |-> <<>>],
     stack |-> <<>>, depth |-> 0, expect |-> EmptyNetwork]

NoEdge == Edge(NoneEntity, NoneEntity, EmptyEvidences, FALSE, FALSE, FALSE)

\* Network.__init__ and Network.reset
NetInit ==
    /\ interactions = EmptyNetwork.interactions
    /\ nodes = EmptyNetwork.nodes
    /\ nodes_by_label = EmptyNetwork.nodes_by_label
    /\ interactions_by_nodes = EmptyNetwork.interactions_by_nodes
    /\ last = Last("reset", NoEdge, NoneEntity, NoneEntity, FALSE, FALSE, FALSE)
    /\ nadd = 0

InitIa ==
    /\ ia = Interaction(IaA, IaB)
    /\ res = Mutated("__init__", FALSE, FALSE)
    /\ nops = 0
    /\ NetInit

NextIa ==
    \/ \E ev \in InputEvidences, d \in DirectionArgs, effect \in {0, 1, -1} :
            IaAddEvidence(ev, d, effect)
    \/ \E other \in Others : IaIadd(other)
    \/ \E other \in Others : IaMerge(other)
    \/ \E d \in DirectionArgs, resource \in {None, "r1", "r2"} :
            IaUnsetDirection(d, resource)
    \/ \E d \in DirectionArgs, sign \in {"positive", "negative"},
          resource \in {None, "r1", "r2"} :
            IaUnsetSign(d, sign, resource)
    \/ \E q \in QueryParams : IaMajorityDir(q)
    \/ \E q \in QueryParams : IaMajoritySign(q)

SpecIa == InitIa /\ [][NextIa]_vars

(***************************************************************************)
(* SpecQuery: one Interaction object built by add_evidence and the unset   *)
(* methods, and the consensus, get_evidences, is_directed and is_mutual    *)
(* queries made on it                                                      *)
(***************************************************************************)
NextQuery ==
    \/ \E ev \in InputEvidences, d \in DirectionArgs, effect \in {0, 1, -1} :
            IaAddEvidence(ev, d, effect)
    \/ \E d \in DirectionArgs, resource \in {None, "r1", "r2"} :
            IaUnsetDirection(d, resource)
    \/ \E d \in DirectionArgs, sign \in {"positive", "negative"},
          resource \in {None, "r1", "r2"} :
            IaUnsetSign(d, sign, resource)
    \/ \E q \in QueryParams : IaConsensus(q)
    \/ \E direction \in {None, "True", "a_b", "b_a"},
          effect \in {None, "True", "positive", "negative"} :
            IaGetEvidences(direction, effect)
    \/ IaIsDirected
    \/ IaIsMutual

SpecQuery == InitIa /\ [][NextQuery]_vars

(***************************************************************************)
(* Spec: one Network and the calls made on it                              *)
(***************************************************************************)
\* the Network held in the variables
Net == Network(interactions, nodes, nodes_by_label, interactions_by_nodes)

SetNet(new) ==
    /\ interactions' = new.interactions
    /\ nodes' = new.nodes
    /\ nodes_by_label' = new.nodes_by_label
    /\ interactions_by_nodes' = new.interactions_by_nodes

\* the entities and the edge records the calls are made with: every
\* ordered pair of entities, as an undirected edge or as a directed
\* stimulation, supported by one resource with one reference
NetEntities == {EntA, EntA2, EntB}
NetEvidences == {OneEvidence(ResP, {1})}
NetFlags == {<<FALSE, FALSE, FALSE>>, <<TRUE, TRUE, FALSE>>}

NetEdges ==
    {Edge(x, y, ev, f[1], f[2], f[3]) :
        x \in NetEntities, y \in NetEntities, ev \in NetEvidences,
        f \in NetFlags}

\* each edge record with the Interaction _add_update_edge builds from it
NetRows == {[edge |-> e, interaction |-> EdgeInteraction(e)] : e \in NetEdges}

\* entities with at least one key in their adjacency set
Connected(self, entity) == ByNodes(self, entity) # {}

\* the pair of this interaction is new to the network, and each endpoint
\* is either connected already (it has interactions and its identifier is
\* in nodes) or new (it has no interaction and its identifier is not in
\* nodes)
Fresh(self, interaction) ==
    /\ <<interaction.a, interaction.b>> \notin DOMAIN self.interactions
    /\ \A x \in {interaction.a, interaction.b} :
            Connected(self, x) <=> (x.identifier \in DOMAIN self.nodes)

\* Network._add_update_edge: builds the Interaction and hands it to
\* add_interaction
NetAddEdge(row, only_directions) ==
    /\ nadd < MaxAdds
    /\ LET edge == row.edge
           interaction == row.interaction
       IN  /\ SetNet(add_interaction(Net, interaction, only_directions))
           /\ last' = Last("add_interaction", edge, interaction.a,
                           interaction.b, only_directions,
                           Fresh(Net, interaction) /\ ~ only_directions,
                           /\ last.op = "add_interaction"
                           /\ last.edge = edge
                           /\ last.only_directions = only_directions)
    /\ nadd' = nadd + 1
    /\ UNCHANGED iaVars

NetAddNode(entity) ==
    /\ SetNet(add_node(Net, entity, TRUE))
    /\ last' = Last("add_node", NoEdge, entity, NoneEntity, FALSE, FALSE, FALSE)
    /\ UNCHANGED <<nadd, ia, res, nops>>

NetRemoveNode(entity) ==
    /\ SetNet(remove_node(Net, entity))
    /\ last' = Last("remove_node", NoEdge, entity, NoneEntity, FALSE, FALSE, FALSE)
    /\ UNCHANGED <<nadd, ia, res, nops>>

NetRemoveInteraction(entity_a, entity_b) ==
    /\ SetNet(remove_interaction(Net, entity_a, entity_b))
    /\ last' = Last("remove_interaction", NoEdge, entity_a, entity_b, FALSE,
                    FALSE,
                    /\ last.op = "add_interaction"
                    /\ last.fresh
                    /\ {last.a, last.b} = {entity_a, entity_b})
    /\ UNCHANGED <<nadd, ia, res, nops>>

NetRemoveZeroDegree ==
    /\ SetNet(remove_zero_degree(Net))
    /\ last' = Last("remove_zero_degree", NoEdge, NoneEntity, NoneEntity, FALSE, FALSE, FALSE)
    /\ UNCHANGED <<nadd, ia, res, nops>>

Init == InitIa

Next ==
    \/ \E row \in NetRows, only_directions \in BOOLEAN :
            NetAddEdge(row, only_directions)
    \/ \E entity \in NetEntities : NetAddNode(entity)
    \/ \E entity \in NetEntities : NetRemoveNode(entity)
    \/ \E entity_a \in NetEntities, entity_b \in NetEntities :
            NetRemoveInteraction(entity_a, entity_b)
    \/ NetRemoveZeroDegree

Spec == Init /\ [][Next]_vars

(***************************************************************************)
(* SpecClean: a Network that is built and then cleaned                     *)
(***************************************************************************)
\* the edge records the network is built from: three pairs of entities
\* with distinct identifiers, undirected or directed, supported by one
\* resource with none, one or two references
CleanPairs == {<<EntA, EntB>>, <<EntB, EntC>>, <<EntC, EntA>>}
CleanEvidences == {OneEvidence(ResP, refs) : refs \in SUBSET {1, 2}}

CleanRows ==
    {[edge |-> Edge(p[1], p[2], ev, d, FALSE, FALSE),
      interaction |-> EdgeInteraction(Edge(p[1], p[2], ev, d, FALSE, FALSE))] :
        p \in CleanPairs, ev \in CleanEvidences, d \in BOOLEAN}

NetRemoveHtp(threshold, keep_directed) ==
    /\ SetNet(remove_htp(Net, threshold, keep_directed))
    /\ last' = [Last("remove_htp", NoEdge, NoneEntity, NoneEntity, FALSE,
                     FALSE, FALSE)
                EXCEPT !.threshold = threshold,
                       !.keep_directed = keep_directed]
    /\ UNCHANGED <<nadd, ia, res, nops>>

\* Network.remove_undirected: the loop runs over the items of
\* `interactions` and removes from it; after the first removal the
\* dictionary has changed size and the iteration raises RuntimeError.
\* Which matching interaction the iteration meets first depends on the
\* order of the dictionary.
NetRemoveUndirected(min_refs) ==
    /\ IF undirected_to_remove(Net, min_refs) = {}
       THEN /\ UNCHANGED <<interactions, nodes, nodes_by_label,
                           interactions_by_nodes>>
            /\ last' = [Last("remove_undirected", NoEdge, NoneEntity,
                             NoneEntity, FALSE, FALSE, FALSE)
                        EXCEPT !.min_refs = min_refs]
       ELSE \E key \in undirected_to_remove(Net, min_refs) :
            /\ SetNet(remove_interaction(Net, key[1], key[2]))
            /\ last' = [Last("remove_undirected", NoEdge, NoneEntity,
                             NoneEntity, FALSE, FALSE, FALSE)
                        EXCEPT !.min_refs = min_refs, !.raised = TRUE]
    /\ UNCHANGED <<nadd, ia, res, nops>>

NextClean ==
    \/ \E row \in CleanRows : NetAddEdge(row, FALSE)
    \/ \E threshold \in {0, 1}, keep_directed \in BOOLEAN :
            NetRemoveHtp(threshold, keep_directed)
    \/ \E min_refs \in {0, 1, 2} : NetRemoveUndirected(min_refs)

SpecClean == Init /\ [][NextClean]_vars

(***************************************************************************)
(* SpecPaths: a Network of directed interactions and path searches in it   *)
(***************************************************************************)
\* the directed edge records the network is built from: every ordered
\* pair of three entities with distinct identifiers, and a loop on one
PathEntities == {EntA, EntB, EntC}
PathPairs ==
    {p \in PathEntities \X PathEntities : p[1] # p[2]} \cup {<<EntA, EntA>>}

PathRows ==
    {[edge |-> Edge(p[1], p[2], OneEvidence(ResP, {1}), TRUE, FALSE, FALSE),
      interaction |-> EdgeInteraction(
            Edge(p[1], p[2], OneEvidence(ResP, {1}), TRUE, FALSE, FALSE))] :
        p \in PathPairs}

\* Network._add_update_edge with a directed edge record; the network is
\* searched once it is built
PathAddEdge(row) ==
    /\ last.op # "find_paths"
    /\ SetNet(add_interaction(Net, row.interaction, FALSE))
    /\ last' = Last("add_interaction", row.edge, row.interaction.a,
                    row.interaction.b, FALSE, FALSE, FALSE)
    /\ UNCHANGED <<nadd, ia, res, nops>>

\* Network.find_paths
NetFindPaths(start, end, loops, maxlen, minlen) ==
    /\ last.op # "find_paths"
    /\ last' = [Last("find_paths", NoEdge, start, end, FALSE, FALSE, FALSE)
                EXCEPT !.loops = loops, !.minlen = minlen,
                       !.maxlen = maxlen,
                       !.paths = find_paths(Net, start, end, loops, maxlen,
                                            minlen)]
    /\ UNCHANGED <<interactions, nodes, nodes_by_label,
                   interactions_by_nodes, nadd, ia, res, nops>>

NextPaths ==
    \/ \E row \in PathRows : PathAddEdge(row)
    \/ \E start \in {EntA, EntB}, end \in {NoneEntity, EntA, EntC},
          loops \in BOOLEAN, maxlen \in 1..MaxLen, minlen \in 0..2 :
            NetFindPaths(start, end, loops, maxlen, minlen)

SpecPaths == Init /\ [][NextPaths]_vars

(***************************************************************************)
(* SpecLoad: a Network and the calls of Network.load made on it            *)
(***************************************************************************)
\* the `resources` arguments: a single schema, a list and a dict of
\* schemas, a list nested in a list, the name of a registry collection
\* alone and in a list, a string that names nothing, and None
LoadArgs ==
    {Schema(ResP), Schema(ResS),
     ListArg(<<Schema(ResP), Schema(ResS)>>),
     DictArg(<<Schema(ResS), Schema(ResP)>>),
     ListArg(<<ListArg(<<Schema(ResP)>>), Schema(ResS)>>),
     StrArg("pathway"),
     ListArg(<<StrArg("pathway")>>),
     StrArg("nosuch"),
     NoneArg}

\* common.to_set(exclude)
ExcludeArgs == SUBSET {ResP.name, ResS.name}

\* Network.load
NetLoad(resources, exclude, only_directions) ==
    /\ nadd < MaxAdds
    /\ LET done == load(Loading(Net, <<>>), resources, exclude,
                        only_directions)
       IN  /\ SetNet(done.net)
           /\ last' = [Last("load", NoEdge, NoneEntity, NoneEntity,
                            only_directions, FALSE, FALSE)
                       EXCEPT !.resources = resources,
                              !.exclude = exclude,
                              !.calls = done.calls]
    /\ nadd' = nadd + 1
    /\ UNCHANGED iaVars

NextLoad ==
    \E resources \in LoadArgs, exclude \in ExcludeArgs,
       only_directions \in BOOLEAN :
            NetLoad(resources, exclude, only_directions)

SpecLoad == Init /\ [][NextLoad]_vars

(***************************************************************************)
(* SpecDir: a Network built from the evidences of two resources of         *)
(* different interaction types, with and without only_directions           *)
(***************************************************************************)
\* the edge records: four endpoint pairs, undirected or a directed
\* stimulation, carrying the evidence of the post-translational resource,
\* of the transcriptional one, or of both
DirPairs == {<<EntA, EntB>>, <<EntB, EntA>>, <<EntA2, EntB>>, <<EntB, EntC>>}
DirEvidences ==
    {OneEvidence(ResP, {1}), OneEvidence(ResS, {1}),
     EvidencesAdd(OneEvidence(ResP, {1}), OneEvidence(ResS, {1}))}

DirEdges ==
    {Edge(p[1], p[2], ev, f[1], f[2], f[3]) :
        p \in DirPairs, ev \in DirEvidences, f \in NetFlags}

DirRows == {[edge |-> e, interaction |-> EdgeInteraction(e)] : e \in DirEdges}

NextDir ==
    \/ \E row \in DirRows, only_directions \in BOOLEAN :
            NetAddEdge(row, only_directions)
    \/ \E entity \in {EntA, EntA2, EntB} : NetRemoveNode(entity)

SpecDir == Init /\ [][NextDir]_vars

(***************************************************************************)
(* SpecRead: an input file read by _read_resource under a schema, and the  *)
(* edge list added to an empty Network                                     *)
(***************************************************************************)
\* the schemas: with and without header, direction fixed or read from a
\* column, sign absent or read from a column, references required or not
NetworkInputs ==
    {NetworkInput(header, is_directed_, sign, must_have_refs) :
        header \in BOOLEAN, is_directed_ \in {"False", "True", "column"},
        sign \in {None, "column"}, must_have_refs \in BOOLEAN}

\* the lines: a header, an empty line, and lines that differ in the order
\* of the identifiers, in what the direction and sign columns say, in
\* whether there is a reference, and in how the identifiers translate
InputLines ==
    {HeaderLine, EmptyLine,
     Line("P1", "P3", "directed", "+", {1}),
     Line("P3", "P1", "", "+", {}),
     Line("P3", "P1", "directed", "-", {1}),
     Line("CPX1", "P3", "", "", {1}),
     Line("X9", "P3", "directed", "", {}),
     Line("P1", "P3", "", "", {})}

InputFiles == UNION {[1 .. n -> InputLines] : n \in 1 .. MaxLines}

\* Network._read_resource on a new Network
NetReadResource(networkinput, keep_noref, infile) ==
    /\ last.op = "reset"
    /\ LET read == _read_resource(networkinput, keep_noref, infile)
       IN  last' = [Last("_read_resource", NoEdge, NoneEntity, NoneEntity,
                         FALSE, FALSE, FALSE)
                    EXCEPT !.networkinput = networkinput,
                           !.keep_noref = keep_noref,
                           !.infile = infile,
                           !.edge_list = read.edge_list,
                           !.edge_list_mapped = read.edge_list_mapped,
                           !.ref_filtered = read.ref_filtered]
    /\ UNCHANGED <<interactions, nodes, nodes_by_label,
                   interactions_by_nodes, nadd, ia, res, nops>>

\* Network._add_edge_list with the edge list just read; `built` are the
\* Interaction objects _add_update_edge builds, one for each edge
NetAddEdgeList(only_directions) ==
    /\ last.op = "_read_resource"
    /\ LET edges == [i \in DOMAIN last.edge_list_mapped |->
                        MappedEdge(last.edge_list_mapped[i])]
       IN  /\ SetNet(_add_edge_list(Net, edges, only_directions))
           /\ last' = [last EXCEPT
                        !.op = "_add_edge_list",
                        !.only_directions = only_directions,
                        !.built = [i \in DOMAIN edges |->
                                        EdgeInteraction(edges[i])]]
    /\ UNCHANGED <<nadd, ia, res, nops>>

NextRead ==
    \/ /\ last.op = "reset"
       /\ \E networkinput \in NetworkInputs, keep_noref \in BOOLEAN,
             infile \in InputFiles :
               NetReadResource(networkinput, keep_noref, infile)
    \/ \E only_directions \in BOOLEAN : NetAddEdgeList(only_directions)

SpecRead == Init /\ [][NextRead]_vars

(***************************************************************************)
(* SpecOrg: a Network of entities of two organisms and organisms_check     *)
(***************************************************************************)
\* the edge records: undirected, between a human and a mouse entity of the
\* same identifier, a human entity and a mouse complex
OrgPairs ==
    {<<EntA, EntB>>, <<EntA2, EntB>>, <<EntA, EntA2>>, <<EntB, EntCpx>>,
     <<EntA2, EntCpx>>}

OrgRows ==
    {[edge |-> Edge(p[1], p[2], OneEvidence(ResP, {1}), FALSE, FALSE, FALSE),
      interaction |-> EdgeInteraction(
            Edge(p[1], p[2], OneEvidence(ResP, {1}), FALSE, FALSE, FALSE))] :
        p \in OrgPairs}

\* Network._add_update_edge before the organisms are checked
OrgAddEdge(row) ==
    /\ last.op # "organisms_check"
    /\ SetNet(add_interaction(Net, row.interaction, FALSE))
    /\ last' = Last("add_interaction", row.edge, row.interaction.a,
                    row.interaction.b, FALSE, FALSE, FALSE)
    /\ UNCHANGED <<nadd, ia, res, nops>>

\* Network.organisms_check(organisms, remove_mismatches); the reflists
\* module misses the entities in `unlisted`
NetOrganismsCheck(organisms, remove_mismatches, unlisted) ==
    /\ last.op # "organisms_check"
    /\ SetNet(organisms_check_with(Net, organisms, remove_mismatches, FALSE,
                                   unlisted))
    /\ last' = [Last("organisms_check", NoEdge, NoneEntity, NoneEntity,
                     FALSE, FALSE, FALSE)
                EXCEPT !.organisms = organisms, !.unlisted = unlisted]
    /\ UNCHANGED <<nadd, ia, res, nops>>

NextOrg ==
    \/ \E row \in OrgRows : OrgAddEdge(row)
    \/ \E organisms \in {{9606}, {10090}, {9606, 10090}},
          remove_mismatches \in BOOLEAN,
          unlisted \in {{}, {EntB}, {EntCpx}} :
            NetOrganismsCheck(organisms, remove_mismatches, unlisted)

SpecOrg == Init /\ [][NextOrg]_vars

(***************************************************************************)
(* SpecPickle: a Network saved to a pickle file and loaded from it         *)
(***************************************************************************)
\* the edge records the network is built from
PickleRows ==
    {[edge |-> Edge(p[1], p[2], OneEvidence(ResP, {1}), FALSE, FALSE, FALSE),
      interaction |-> EdgeInteraction(
            Edge(p[1], p[2], OneEvidence(ResP, {1}), FALSE, FALSE, FALSE))] :
        p \in CleanPairs}

\* the record of a call, with the content of the pickle file kept
PickleLast(op, entity) ==
    [Last(op, NoEdge, entity, NoneEntity, FALSE, FALSE, FALSE)
     EXCEPT !.saved = last.saved, !.pickle = last.pickle]

\* Network._add_update_edge
PickleAddEdge(row) ==
    /\ nadd < MaxAdds
    /\ SetNet(add_interaction(Net, row.interaction, FALSE))
    /\ last' = [PickleLast("add_interaction", row.interaction.a)
                EXCEPT !.edge = row.edge, !.b = row.interaction.b]
    /\ nadd' = nadd + 1
    /\ UNCHANGED iaVars

\* Network.save_to_pickle
NetSaveToPickle ==
    /\ last' = [PickleLast("save_to_pickle", NoneEntity)
                EXCEPT !.saved = TRUE,
                       !.pickle = [interactions |-> interactions,
                                   nodes |-> nodes,
                                   nodes_by_label |-> nodes_by_label]]
    /\ UNCHANGED <<interactions, nodes, nodes_by_label,
                   interactions_by_nodes, nadd, ia, res, nops>>

\* Network(): a new object takes the place of the one in use
NetNew ==
    /\ SetNet(EmptyNetwork)
    /\ last' = PickleLast("reset", NoneEntity)
    /\ UNCHANGED <<nadd, ia, res, nops>>

\* Network.load_from_pickle with the file save_to_pickle wrote
NetLoadFromPickle ==
    /\ last.saved
    /\ interactions' = last.pickle.interactions
    /\ nodes' = last.pickle.nodes
    /\ nodes_by_label' = last.pickle.nodes_by_label
    /\ last' = PickleLast("load_from_pickle", NoneEntity)
    /\ UNCHANGED <<interactions_by_nodes, nadd, ia, res, nops>>

\* Network.remove_node
PickleRemoveNode(entity) ==
    /\ SetNet(remove_node(Net, entity))
    /\ last' = PickleLast("remove_node", entity)
    /\ UNCHANGED <<nadd, ia, res, nops>>

NextPickle ==
    \/ \E row \in PickleRows : PickleAddEdge(row)
    \/ NetSaveToPickle
    \/ NetNew
    \/ NetLoadFromPickle
    \/ \E entity \in PathEntities : PickleRemoveNode(entity)

SpecPickle == Init /\ [][NextPickle]_vars

(***************************************************************************)
(* SpecLabel: a Network under add_interaction, remove_interaction and      *)
(* remove_node                                                             *)
(***************************************************************************)
NextLabel ==
    \/ \E row \in NetRows : NetAddEdge(row, FALSE)
    \/ \E entity \in NetEntities : NetRemoveNode(entity)
    \/ \E entity_a \in NetEntities, entity_b \in NetEntities :
            NetRemoveInteraction(entity_a, entity_b)

SpecLabel == Init /\ [][NextLabel]_vars

(***************************************************************************)
(* SpecRemove: remove_node and remove_interaction run statement by         *)
(* statement on a Network with loops and shared partners                   *)
(***************************************************************************)
\* Network._add_update_edge between two calls
RemoveAddEdge(row) ==
    /\ last.stack = <<>>
    /\ SetNet(add_interaction(Net, row.interaction, FALSE))
    /\ last' = Last("add_interaction", row.edge, row.interaction.a,
                    row.interaction.b, FALSE, FALSE, FALSE)
    /\ UNCHANGED <<nadd, ia, res, nops>>

\* the call remove_node(entity); `expect` is the network after the call
\* as the method computes it in one step
CallRemoveNode(entity) ==
    /\ last.stack = <<>>
    /\ last' = [Last("remove_node", NoEdge, entity, NoneEntity, FALSE,
                     FALSE, FALSE)
                EXCEPT !.stack = <<RemoveNodeFrame(entity)>>,
                       !.depth = 1,
                       !.expect = remove_node(Net, entity)]
    /\ UNCHANGED <<interactions, nodes, nodes_by_label,
                   interactions_by_nodes, nadd, ia, res, nops>>

\* the call remove_interaction(entity_a, entity_b)
CallRemoveInteraction(entity_a, entity_b) ==
    /\ last.stack = <<>>
    /\ last' = [Last("remove_interaction", NoEdge, entity_a, entity_b, FALSE,
                     FALSE, FALSE)
                EXCEPT !.stack = <<RemoveInteractionFrame(entity_a, entity_b)>>,
                       !.depth = 1,
                       !.expect = remove_interaction(Net, entity_a, entity_b)]
    /\ UNCHANGED <<interactions, nodes, nodes_by_label,
                   interactions_by_nodes, nadd, ia, res, nops>>

\* the next statement of the innermost call
RemoveStep ==
    /\ last.stack # <<>>
    /\ LET run == IF last.stack[Len(last.stack)].fn = "remove_node"
                  THEN remove_node_step(Net, last.stack)
                  ELSE remove_interaction_step(Net, last.stack)
       IN  /\ SetNet(run.net)
           /\ last' = [last EXCEPT
                        !.stack = run.stack,
                        !.depth = IF Len(run.stack) > @
                                  THEN Len(run.stack) ELSE @]
    /\ UNCHANGED <<nadd, ia, res, nops>>

NextRemove ==
    \/ \E row \in PathRows : RemoveAddEdge(row)
    \/ \E entity \in PathEntities : CallRemoveNode(entity)
    \/ \E entity_a \in PathEntities, entity_b \in PathEntities :
            CallRemoveInteraction(entity_a, entity_b)
    \/ RemoveStep

\* a call that has started runs on: the interpreter executes the next
\* statement of the innermost call
SpecRemove == Init /\ [][NextRemove]_vars /\ WF_vars(RemoveStep)

(***************************************************************************)
(* Properties of the Interaction (checked under SpecIa)                    *)
(***************************************************************************)
\* the resources of an Evidences
ResourcesOf(evs) == DOMAIN evs

\* does the Interaction hold evidence in a directed slot
HasDirected(self) ==
    \E d \in DirectedKeys(self.a, self.b) : ResourcesOf(self.direction[d]) # {}

\* C1: invariant I1 - every evidence (resource) of positive[d] or
\* negative[d] is also in direction[d] and in evidences, for both directed
\* keys d, after any sequence of add_evidence, merge, +=, unset_direction
\* and unset_sign.
C1_SignsWithinDirection ==
    \A d \in DirectedKeys(ia.a, ia.b) :
        (ResourcesOf(ia.positive[d]) \cup ResourcesOf(ia.negative[d]))
            \subseteq
                (ResourcesOf(ia.direction[d]) \cap ResourcesOf(ia.evidences))

\* a sign slot still holds evidence after an unset_direction / unset_sign
C1_Witness ==
    /\ res.op \in {"unset_direction", "unset_sign"}
    /\ ~ res.mismatch
    /\ \E d \in DirectedKeys(ia.a, ia.b) :
            ResourcesOf(ia.positive[d]) \cup ResourcesOf(ia.negative[d]) # {}

\* C8: a merge (+= or merge) with an Interaction over other endpoints, and
\* an add_evidence with a direction pair that is not the endpoints, leave
\* every slot unchanged and raise nothing.
C8_MismatchIsNoop ==
    [][(res'.op \in {"__iadd__", "merge", "add_evidence"} /\ res'.mismatch)
            => (ia' = ia /\ ~ res'.raised)]_vars

\* a mismatched += was made on an Interaction that holds evidence, with an
\* Interaction that holds evidence too
C8_Witness ==
    /\ res.op = "__iadd__"
    /\ res.mismatch
    /\ ResourcesOf(ia.evidences) # {}

\* the resources the filters of majority_dir / majority_sign let through
Counted(evs, q) ==
    {r \in ResourcesOf(evs) :
        /\ q.only_interaction_type # None
                => r.interaction_type = q.only_interaction_type
        /\ q.only_primary => r.via = None}

\* the count the chosen method gives: references, (reference, resource)
\* pairs, or resources
CountOf(evs, q) ==
    IF q.by_references
    THEN Cardinality(UNION {evs[r] : r \in Counted(evs, q)})
    ELSE IF q.by_reference_resource_pairs
    THEN Cardinality({p \in Counted(evs, q) \X References : p[2] \in evs[p[1]]})
    ELSE Cardinality(Counted(evs, q))

\* C9 as stated: with evidence in a directed slot majority_dir never
\* returns 'undirected'; it returns the direction with the strictly larger
\* count, and None exactly when the two counts are equal.
C9_NeverUndirected ==
    (res.op = "majority_dir" /\ HasDirected(ia)) =>
        LET n_a_b == CountOf(ia.direction["a_b"], res.q)
            n_b_a == CountOf(ia.direction["b_a"], res.q)
        IN  /\ res.value # "undirected"
            /\ (res.value = None) <=> (n_a_b = n_b_a)
            /\ (res.value = "a_b") <=> (n_a_b > n_b_a)
            /\ (res.value = "b_a") <=> (n_b_a > n_a_b)

\* C9 amended: with evidence in a directed slot majority_dir returns
\* 'undirected' exactly when both counts are zero, None exactly when the
\* counts are equal and not zero, and otherwise the direction with the
\* strictly larger count.
C9_MajorityDir ==
    (res.op = "majority_dir" /\ HasDirected(ia)) =>
        LET n_a_b == CountOf(ia.direction["a_b"], res.q)
            n_b_a == CountOf(ia.direction["b_a"], res.q)
        IN  /\ (res.value = "undirected") <=> (n_a_b = 0 /\ n_b_a = 0)
            /\ (res.value = None) <=> (n_a_b = n_b_a /\ n_a_b > 0)
            /\ (res.value = "a_b") <=> (n_a_b > n_b_a)
            /\ (res.value = "b_a") <=> (n_b_a > n_a_b)

\* majority_dir answered None on an Interaction with evidence in both
\* directed slots
C9_Witness ==
    /\ res.op = "majority_dir"
    /\ res.value = None
    /\ ResourcesOf(ia.direction["a_b"]) # {}
    /\ ResourcesOf(ia.direction["b_a"]) # {}

Incident(self, entity) ==
    {key \in DOMAIN self.interactions : entity \in {key[1], key[2]}}

\* nodes[entity.identifier] exists and is this entity
InNodes(self, entity) ==
    /\ entity.identifier \in DOMAIN self.nodes
    /\ self.nodes[entity.identifier] = entity

C3_EndpointsInNodes ==
    \A key \in DOMAIN interactions :
        InNodes(Net, key[1]) /\ InNodes(Net, key[2])

\* C4: after remove_node(e), e is absent from nodes and from
\* interactions_by_nodes and no interaction has e as an endpoint; after
\* remove_node or remove_interaction every entity that lost its last
\* interaction in the call is absent from nodes and interactions_by_nodes,
\* and every entity that still has an interaction is kept.
C4_RemovalCascade ==
    [][/\ (last'.op = "remove_node") =>
            /\ ~ InNodes(Net', last'.a)
            /\ last'.a \notin DOMAIN interactions_by_nodes'
            /\ Incident(Net', last'.a) = {}
       /\ (last'.op \in {"remove_node", "remove_interaction"}) =>
            \A x \in NetEntities :
                /\ (Incident(Net, x) # {} /\ Incident(Net', x) = {}) =>
                        /\ ~ InNodes(Net', x)
                        /\ x \notin DOMAIN interactions_by_nodes'
                /\ (Incident(Net', x) # {}) =>
                        /\ InNodes(Net, x) => InNodes(Net', x)
                        /\ x \in DOMAIN interactions_by_nodes'
      ]_vars

\* C5: right after remove_zero_degree, in any state reached through
\* add_node, add_interaction, remove_interaction and remove_node, vcount
\* is the size of nodes and is the number of entities whose
\* interactions_by_nodes set is not empty.
C5_ZeroDegree ==
    (last.op = "remove_zero_degree") =>
        /\ vcount(Net) = Cardinality(DOMAIN nodes)
        /\ vcount(Net) =
            Cardinality({entity \in DOMAIN interactions_by_nodes :
                            interactions_by_nodes[entity] # {}})

\* the resource set and the reference set of every slot of an Interaction
ReferencesOf(evs) == UNION {evs[r] : r \in DOMAIN evs}
SetsOf(evs) == <<ResourcesOf(evs), ReferencesOf(evs)>>
SlotSets(self) ==
    [evidences |-> SetsOf(self.evidences),
     direction |-> [k \in DOMAIN self.direction |-> SetsOf(self.direction[k])],
     positive |-> [k \in DOMAIN self.positive |-> SetsOf(self.positive[k])],
     negative |-> [k \in DOMAIN self.negative |-> SetsOf(self.negative[k])]]

\* C6: in a network to which an interaction was just added, adding an
\* interaction of the same endpoints and the same evidences in the same
\* slots once more leaves vcount, ecount and the resource set and reference
\* set of every slot of every stored interaction unchanged.
C6_SecondAddIdempotent ==
    (last.op = "add_interaction") =>
        LET again == add_interaction(Net, EdgeInteraction(last.edge),
                                     last.only_directions)
        IN  /\ vcount(again) = vcount(Net)
            /\ ecount(again) = ecount(Net)
            /\ DOMAIN again.interactions = DOMAIN interactions
            /\ \A key \in DOMAIN interactions :
                SlotSets(again.interactions[key]) = SlotSets(interactions[key])

\* the same edge record was ingested twice in a row, and the stored
\* interaction holds signed evidence with a reference
C6_Witness ==
    /\ last.op = "add_interaction"
    /\ last.repeat
    /\ ~ last.only_directions
    /\ <<last.a, last.b>> \in DOMAIN interactions
    /\ \E k \in DOMAIN interactions[<<last.a, last.b>>].positive :
            ReferencesOf(interactions[<<last.a, last.b>>].positive[k]) # {}

\* add_interaction(ia) followed by remove_interaction(ia.a, ia.b) gives
\* back the interactions and the nodes of the state before the add
RoundTrip ==
    LET back == remove_interaction(Net', last'.a, last'.b)
    IN  /\ back.interactions = interactions
        /\ back.nodes = nodes

\* C7 as stated: from every reachable network state and for every
\* interaction ia, add_interaction(ia) then remove_interaction(ia.a, ia.b)
\* returns interactions and nodes to their state before the add.
C7_RoundTripAlways ==
    [][(last'.op = "add_interaction" /\ ~ last'.only_directions) => RoundTrip]_vars

\* C7: when the pair of ia has no interaction before the add and each
\* endpoint of ia is either connected already (it has an interaction and
\* its identifier is in nodes) or new (it has no interaction and its
\* identifier is not in nodes), add_interaction(ia) then
\* remove_interaction(ia.a, ia.b) returns interactions and nodes to their
\* state before the add.
C7_RoundTripFresh ==
    [][(/\ last'.op = "add_interaction"
        /\ ~ last'.only_directions
        /\ Fresh(Net, EdgeInteraction(last'.edge))) => RoundTrip]_vars

\* an interaction new to a network that holds others was added and then
\* removed again
C7_Witness ==
    /\ last.op = "remove_interaction"
    /\ last.repeat
    /\ DOMAIN interactions # {}
    /\ DOMAIN nodes # {}

\* the set of rows of a list
RowSet(rows) == {rows[i] : i \in DOMAIN rows}

\* the rows the direction d should give: one per flag set, and a
\* 'directed', 'unknown' row when neither is
ExpectedRows(d) ==
    LET pair == KeyPair(ia, d)
    IN  (IF res.signs[d][1]
         THEN {<<pair[1], pair[2], "directed", "positive">>} ELSE {})
        \cup
        (IF res.signs[d][2]
         THEN {<<pair[1], pair[2], "directed", "negative">>} ELSE {})
        \cup
        (IF ~ res.signs[d][1] /\ ~ res.signs[d][2]
         THEN {<<pair[1], pair[2], "directed", "unknown">>} ELSE {})

\* C11: consensus is never empty; it is the one row
\* [a, b, 'undirected', 'unknown'] when majority_dir is 'undirected', and
\* otherwise, for each direction majority_dir selects (both on a tie), a
\* 'directed', 'positive' row if the positive flag is set, a 'directed',
\* 'negative' row if the negative flag is set, and a 'directed', 'unknown'
\* row when neither flag is set.
C11_Consensus ==
    (res.op = "consensus") =>
        /\ res.rows # <<>>
        /\ RowSet(res.rows) =
            IF res.value = "undirected"
            THEN {<<ia.a, ia.b, "undirected", "unknown">>}
            ELSE IF res.value = None
            THEN ExpectedRows("a_b") \cup ExpectedRows("b_a")
            ELSE ExpectedRows(res.value)

\* the evidences of one sign: of the slot of d when d is a directed key,
\* of both directed slots otherwise
SignEvidences(slots, d) ==
    IF d \in {"a_b", "b_a"} THEN slots[d]
    ELSE EvidencesAdd(slots["a_b"], slots["b_a"])

\* C12: get_evidences(effect = 'negative') returns exactly the evidences
\* of the negative slots - negative[d] when a directed key d is given,
\* otherwise the union of negative[(a,b)] and negative[(b,a)] - and
\* get_evidences(effect = 'positive') the same for the positive slots.
C12_GetEvidencesBySign ==
    (res.op = "get_evidences" /\ ~ res.raised) =>
        /\ (res.q.effect = "negative") =>
                res.evs = SignEvidences(ia.negative, res.q.direction)
        /\ (res.q.effect = "positive") =>
                res.evs = SignEvidences(ia.positive, res.q.direction)

\* C13: is_directed() is true iff direction[(a,b)] or direction[(b,a)] is
\* non-empty, so evidence held only in direction['undirected'] does not
\* make the interaction directed; is_mutual() is true iff both
\* direction[(a,b)] and direction[(b,a)] are non-empty.
C13_DirectedAndMutual ==
    /\ (res.op = "is_directed") =>
            ((res.value = "True") <=> HasDirected(ia))
    /\ (res.op = "is_mutual") =>
            ((res.value = "True") <=>
                \A d \in DirectedKeys(ia.a, ia.b) :
                    ResourcesOf(ia.direction[d]) # {})

(***************************************************************************)
(* Properties of the cleaning operations (checked under SpecClean)         *)
(***************************************************************************)
\* the references carried by more than `threshold` interactions
HtpReferences(threshold) ==
    {ref \in {1, 2} :
        Cardinality({key \in DOMAIN interactions :
            ref \in ReferencesOf(interactions[key].evidences)}) > threshold}

\* the interactions that left the network in this step
Removed == (DOMAIN interactions) \ (DOMAIN interactions')

\* C14: remove_htp(threshold, keep_directed) removes an interaction iff
\* every one of its references is carried by more than `threshold`
\* interactions and keep_directed is false or the interaction has no
\* directed evidence; the other interactions stay as they are.
C14_RemoveHtp ==
    [][(last'.op = "remove_htp") =>
        /\ Removed =
            {key \in DOMAIN interactions :
                /\ ReferencesOf(interactions[key].evidences)
                        \subseteq HtpReferences(last'.threshold)
                /\ \/ ~ last'.keep_directed
                   \/ ~ HasDirected(interactions[key])}
        /\ \A key \in DOMAIN interactions' :
                /\ key \in DOMAIN interactions
                /\ interactions'[key] = interactions[key]
      ]_vars

\* C15: remove_undirected(min_refs) removes exactly the interactions that
\* have no directed evidence and, when min_refs is set, fewer than
\* min_refs references; an interaction with evidence in direction[(a,b)]
\* or direction[(b,a)] is never removed by it.
C15_RemoveUndirected ==
    [][(last'.op = "remove_undirected") =>
        Removed =
            {key \in DOMAIN interactions :
                /\ ~ HasDirected(interactions[key])
                /\ \/ last'.min_refs = 0
                   \/ Cardinality(ReferencesOf(interactions[key].evidences))
                        < last'.min_refs}
      ]_vars

(***************************************************************************)
(* Properties of the path search (checked under SpecPaths)                 *)
(***************************************************************************)
\* the number of edges of a path, and the minlen find_paths works with
Edges(path) == Len(path) - 1
MinLen == IF last.minlen < 1 THEN 1 ELSE last.minlen

\* the network has directed evidence from x to y
Arc(x, y) ==
    \E key \in DOMAIN interactions :
        \E d \in DirectedKeys(key[1], key[2]) :
            /\ KeyPair(interactions[key], d) = <<x, y>>
            /\ ResourcesOf(interactions[key].direction[d]) # {}

\* the network is the directed triangle A -> B, B -> C, C -> A
Triangle ==
    \A x \in PathEntities, y \in PathEntities :
        Arc(x, y) <=>
            <<x, y>> \in {<<EntA, EntB>>, <<EntB, EntC>>, <<EntC, EntA>>}

\* find_paths(A, loops = true, minlen = 2, maxlen = 3)
TriangleQuery ==
    /\ last.op = "find_paths"
    /\ last.a = EntA
    /\ last.b = NoneEntity
    /\ last.loops
    /\ last.minlen = 2
    /\ last.maxlen = 3

\* C16: every path find_paths returns begins at the start node, has
\* between max(1, minlen) and maxlen edges, and its last node is the
\* requested end, or end is null, loops is false and the path has maxlen
\* edges, or loops is true and the last node is the first; on the directed
\* triangle A -> B, B -> C, C -> A, find_paths(A, loops = true, minlen = 2,
\* maxlen = 3) returns [A, B, C, A] and nothing else.
C16_PathShape ==
    /\ (last.op = "find_paths") =>
        \A path \in last.paths :
            /\ path[1] = last.a
            /\ Edges(path) >= MinLen
            /\ Edges(path) <= last.maxlen
            /\ \/ path[Len(path)] = last.b
               \/ /\ last.b = NoneEntity
                  /\ ~ last.loops
                  /\ Edges(path) = last.maxlen
               \/ last.loops /\ path[Len(path)] = path[1]
    /\ (TriangleQuery /\ Triangle) =>
            last.paths = {<<EntA, EntB, EntC, EntA>>}

\* the loop [A, B, C, A] was found on the triangle
C16_Witness ==
    /\ TriangleQuery
    /\ Triangle
    /\ <<EntA, EntB, EntC, EntA>> \in last.paths

\* C17: with loops = false no returned path holds a node more than once;
\* with loops = true, end = start and minlen = 1 the start node is only
\* the first and the last node of every returned path.
C17_StartOnlyAtEnds ==
    (last.op = "find_paths") =>
        /\ (~ last.loops) =>
            \A path \in last.paths :
                Cardinality(Nodes(path)) = Len(path)
        /\ (last.loops /\ last.b = last.a /\ MinLen = 1) =>
            \A path \in last.paths :
                \A i \in 2..(Len(path) - 1) : path[i] # last.a

\* a loop search from and to the start node came back with a path
\* through two other nodes
C17_Witness ==
    /\ last.op = "find_paths"
    /\ last.loops
    /\ last.b = last.a
    /\ MinLen = 1
    /\ \E path \in last.paths : Len(path) = 4

\* C18: with loops = true the first and the last node of every returned
\* path are the same node, whatever the end argument is.
C18_LoopsClosed ==
    (last.op = "find_paths" /\ last.loops) =>
        \A path \in last.paths : path[1] = path[Len(path)]

(***************************************************************************)
(* Properties of Network.load                                              *)
(***************************************************************************)
\* C19: Network.load never calls load_resource for a resource whose name
\* is in `exclude`, at whatever depth of the `resources` argument the
\* resource sits: a single schema, a list or dict of schemas, a collection
\* nested in a collection, or a string naming a registry collection
C19_ExcludeHonoured ==
    last.op = "load" =>
        \A i \in DOMAIN last.calls : last.calls[i] \notin last.exclude

(***************************************************************************)
(* Properties of add_interaction with only_directions (SpecDir)            *)
(***************************************************************************)
\* a step that calls add_interaction with only_directions, the Interaction
\* it hands over and the key of that Interaction
OnlyDirectionsStep == last'.op = "add_interaction" /\ last'.only_directions
Added == EdgeInteraction(last'.edge)
AddedKey == <<Added.a, Added.b>>

\* the evidences of an Evidences whose resource is of one of the types
OfTypes(evs, itypes) ==
    [r \in {x \in DOMAIN evs : x.interaction_type \in itypes} |-> evs[r]]

\* every slot of `new` is the slot of `old` with the evidences `inc`
\* holds in that slot, of the interaction types `itypes`, added to it
MergedInto(new, old, inc, itypes) ==
    /\ new.evidences =
            EvidencesAdd(old.evidences, OfTypes(inc.evidences, itypes))
    /\ \A k \in DOMAIN old.direction :
            new.direction[k] =
                EvidencesAdd(old.direction[k],
                             OfTypes(inc.direction[k], itypes))
    /\ \A k \in DOMAIN old.positive :
            /\ new.positive[k] =
                EvidencesAdd(old.positive[k],
                             OfTypes(inc.positive[k], itypes))
            /\ new.negative[k] =
                EvidencesAdd(old.negative[k],
                             OfTypes(inc.negative[k], itypes))

\* the interaction types of the resources in use
InteractionTypes == {r.interaction_type : r \in Resources}

\* add_interaction with only_directions creates nothing
CreatesNothing ==
    /\ DOMAIN interactions' = DOMAIN interactions
    /\ DOMAIN nodes' = DOMAIN nodes
    /\ vcount(Net') = vcount(Net)
    /\ ecount(Net') = ecount(Net)
    /\ AddedKey \notin DOMAIN interactions => Net' = Net

\* the Interaction handed over and the one in the network have an
\* interaction type in common
Overlapping ==
    /\ AddedKey \in DOMAIN interactions
    /\ get_interaction_types(interactions[AddedKey])
            \cap get_interaction_types(Added) # {}

EdgesAdded == last.op = "_add_edge_list"
EdgeAt(i) == MappedEdge(last.edge_list_mapped[i])

\* the direction key of the pair (x, y) in an interaction of x and y
PairKey(ia_, x, y) ==
    IF x = ia_.a /\ y = ia_.b THEN "a_b" ELSE Key(ia_, "b_a")

\* everything of `ev` is in `evs`
Holds(evs, ev) ==
    \A r \in DOMAIN ev : r \in DOMAIN evs /\ ev[r] \subseteq evs[r]

\* C21: an edge record (x, y) flagged directed has its evidence in
\* direction[(x, y)], which is direction[(b, a)] when x sorts after y, and
\* not in direction[(y, x)]; a positive / negative record has it in
\* positive[(x, y)] / negative[(x, y)]; an undirected record has it in
\* direction['undirected'] and in no other slot
C21_RawOrderRouting ==
    EdgesAdded =>
        \A i \in DOMAIN last.built :
            LET edge == EdgeAt(i)
                ia_ == last.built[i]
                xy == PairKey(ia_, edge.id_a, edge.id_b)
                yx == PairKey(ia_, edge.id_b, edge.id_a)
            IN  /\ EntityLess(edge.id_b, edge.id_a) => xy = "b_a"
                /\ edge.is_directed =>
                        /\ Holds(ia_.direction[xy], edge.evidences)
                        /\ xy # yx => ia_.direction[yx] = EmptyEvidences
                /\ edge.positive => Holds(ia_.positive[xy], edge.evidences)
                /\ edge.negative => Holds(ia_.negative[xy], edge.evidences)
                /\ ~ edge.is_directed =>
                        /\ Holds(ia_.direction["undirected"], edge.evidences)
                        /\ \A k \in DOMAIN ia_.positive :
                                /\ ia_.direction[k] = EmptyEvidences
                                /\ ia_.positive[k] = EmptyEvidences
                                /\ ia_.negative[k] = EmptyEvidences

\* the resource has been read
ResourceRead == last.op = "_read_resource"

\* how often a record occurs in a list
Occurrences(seq, x) == Cardinality({i \in DOMAIN seq : seq[i] = x})

\* the identifiers names translate to
Identifiers == {e.identifier : e \in Entities}

\* a copy of an edge record with the translated identifiers a and b
Translated(edge, a, b) ==
    [edge EXCEPT !.default_name_a = a, !.default_name_b = b]

\* C22: identifier translation gives one edge record for each element of
\* the cartesian product of the two translated identifier sets: a row
\* whose endpoints translate to A and B gives |A| x |B| records, one for
\* each (a, b) in A x B, each with the evidences of the row, and none when
\* A or B is empty
C22_CartesianProduct ==
    ResourceRead =>
        /\ \A i \in DOMAIN last.edge_list :
            LET edge == last.edge_list[i]
            IN  \A a \in Identifiers, b \in Identifiers :
                    Occurrences(last.edge_list_mapped, Translated(edge, a, b))
                        = IF /\ a \in map_name(edge.id_a)
                             /\ b \in map_name(edge.id_b)
                          THEN Occurrences(last.edge_list, edge) ELSE 0
        /\ \A j \in DOMAIN last.edge_list_mapped :
                \E i \in DOMAIN last.edge_list :
                    Translated(last.edge_list_mapped[j], 0, 0)
                        = last.edge_list[i]

\* a file with a row of a complex of two members and a row with an unknown
\* name has been read: two records come of the first, none of the second
C22_Witness ==
    /\ ResourceRead
    /\ Len(last.edge_list) = 2
    /\ last.edge_list[1].id_a = "CPX1"
    /\ last.edge_list[2].id_a = "X9"
    /\ Len(last.edge_list_mapped) = 2
    /\ last.edge_list_mapped[1].default_name_b = 3
    /\ {last.edge_list_mapped[j].default_name_a : j \in 1 .. 2} = {1, 2}

\* C23: with header = true the first record (index 0) is skipped as the
\* header and no other record is, with header = false none is: the edge
\* list is the one read without a header from the records after the
\* header
C23_HeaderSkipped ==
    ResourceRead =>
        last.edge_list =
            _read_resource([last.networkinput EXCEPT !.header = FALSE],
                           last.keep_noref,
                           IF last.networkinput.header
                           THEN Tail(last.infile) ELSE last.infile).edge_list

\* the lines the loop of _read_resource goes on with after the test for
\* empty lines and the header
Handled ==
    {i \in DOMAIN last.infile :
        /\ ~ last.infile[i].empty
        /\ ~ (last.networkinput.header /\ i - 1 = 1)}

\* C24: a row without references is dropped and counted in ref_filtered
\* if and only if references are required, and the global keep_noref flag
\* overrides the schema: with keep_noref true no row is dropped for lack
\* of references
C24_ReferencesRequired ==
    ResourceRead =>
        LET required == /\ ~ last.keep_noref
                        /\ last.networkinput.must_have_references
            noref == {i \in Handled : last.infile[i].refs = {}}
        IN  /\ last.ref_filtered =
                    IF required THEN Cardinality(noref) ELSE 0
            /\ Len(last.edge_list) =
                    Cardinality(Handled) - last.ref_filtered

\* the resources of the evidences an interaction holds with a direction
\* or a sign
DirectedResources(ia_) ==
    UNION {DOMAIN ia_.direction[k] \cup DOMAIN ia_.positive[k]
                \cup DOMAIN ia_.negative[k] : k \in DOMAIN ia_.positive}

\* C28: a single row never asserts both undirected and directed for the
\* same resource: if the evidence of the row is added to
\* direction['undirected'], it is added to no directed, positive or
\* negative slot by that row
C28_UndirectedOrDirected ==
    EdgesAdded =>
        \A i \in DOMAIN last.built :
            DOMAIN last.built[i].direction["undirected"]
                \cap DirectedResources(last.built[i]) = {}

(***************************************************************************)
(* Properties of organisms_check (SpecOrg)                                 *)
(***************************************************************************)
\* C25: after organisms_check(organisms = O) with a non-empty O, every
\* entity in nodes and every endpoint of every interaction left has its
\* taxon in O, also when entities share an identifier and differ in
\* taxon, and also for complexes
C25_OnlyOrganisms ==
    (last.op = "organisms_check" /\ last.organisms # {}) =>
        /\ \A k \in DOMAIN nodes : nodes[k].taxon \in last.organisms
        /\ \A key \in DOMAIN interactions :
                /\ key[1].taxon \in last.organisms
                /\ key[2].taxon \in last.organisms

(***************************************************************************)
(* Properties of the pickle file (SpecPickle)                              *)
(***************************************************************************)
\* C26: after load_from_pickle, on a new or on a populated Network, the
\* three maps are the saved ones and the adjacency index agrees with
\* them: every interaction key is in interactions_by_nodes of both its
\* endpoints and no entry of the index holds a key that is not in
\* interactions
C26_LoadedIndexConsistent ==
    last.op = "load_from_pickle" =>
        /\ interactions = last.pickle.interactions
        /\ nodes = last.pickle.nodes
        /\ nodes_by_label = last.pickle.nodes_by_label
        /\ \A key \in DOMAIN interactions :
                /\ key \in ByNodes(Net, key[1])
                /\ key \in ByNodes(Net, key[2])
        /\ \A entity \in DOMAIN interactions_by_nodes :
                interactions_by_nodes[entity] \subseteq DOMAIN interactions

(***************************************************************************)
(* Properties of the evidences slot (SpecIa)                               *)
(***************************************************************************)
\* C27: after any sequence of add_evidence, merge, +=, unset_direction and
\* unset_sign the resources in `evidences` are those in the direction
\* slots: no resource remains in `evidences` once it has been removed from
\* every direction slot
C27_EvidencesIsUnion ==
    ResourcesOf(ia.evidences) =
        UNION {ResourcesOf(ia.direction[k]) : k \in DOMAIN ia.direction}

(***************************************************************************)
(* Properties of the label index (SpecLabel)                               *)
(***************************************************************************)
\* C29: after any sequence of add_interaction, remove_interaction and
\* remove_node every value of nodes_by_label is an entity that is in
\* nodes, also for the entities without a label, which are filed under
\* their identifier
C29_LabelsPointAtNodes ==
    \A label \in DOMAIN nodes_by_label :
        /\ nodes_by_label[label].identifier \in DOMAIN nodes
        /\ nodes[nodes_by_label[label].identifier] = nodes_by_label[label]

(***************************************************************************)
(* Properties of the removal run statement by statement (SpecRemove)       *)
(***************************************************************************)
\* a call of remove_node or remove_interaction is running / has returned
RemovalRunning == last.stack # <<>>
RemovalReturned ==
    /\ last.op \in {"remove_node", "remove_interaction"}
    /\ last.stack = <<>>

\* the network a call returns with is the one the method gives in one step
RemovalAgrees == RemovalReturned => Net = last.expect

\* C30: the mutually recursive removal terminates: a call of remove_node
\* or remove_interaction, on a network with loops and with nodes that
\* share partners, makes finitely many nested calls and returns
C30_RemovalTerminates == RemovalRunning ~> RemovalReturned

\* remove_node has returned after nested calls three deep
C30_Witness ==
    /\ RemovalReturned
    /\ last.op = "remove_node"
    /\ last.depth >= 3

====
